---- MODULE Spec2Model ----
(***************************************************************************)
(* RuNeVis: reduction of a NetCDF variable along a named dimension.        *)
(*                                                                         *)
(* The specifications of this module share its definitions:                *)
(*   SpecKernel   reduce_along_axis and the kernels applied to one array,  *)
(*   SpecPar      the per-output-index tasks of parallel_mean_axis on the  *)
(*                worker pool, step by step,                               *)
(*   SpecRequest  compute_stat_over_dimension, statement by statement,     *)
(*   SpecPool     the global worker pool and its configuration,            *)
(*   SpecWriter   NetCDFWriter::write_result, one library call at a time,  *)
(*   SpecSlice    the --slice argument and extract_slice,                  *)
(*   SpecZarr     write_array and read_array of the Zarr store,            *)
(*   SpecPaths    one request answered by the library, by the binary and   *)
(*                by the legacy helpers,                                   *)
(*   SpecDecode   the three flat-index decoders on one index,              *)
(*   SpecCount    the i32 counter of the Mean closure along one lane.      *)
(*                                                                         *)
(* Floating-point values are modelled as exact rationals n/d together      *)
(* with NaN, +Infinity and -Infinity; rounding of f32/f64 arithmetic is    *)
(* not modelled.  Axis indices and coordinates are 0-based as in the code; *)
(* sequences are 1-based, so element i of a Rust slice is s[i + 1].        *)
(***************************************************************************)
EXTENDS Integers, Sequences, FiniteSets, TLC

\* ------------------------------------------------------------------ bounds
MaxLen == 3       \* longest 1-D input drawn for the kernels
MaxVal == 1       \* finite input values are -1 .. MaxVal
MaxRank == 3      \* highest rank of the generated N-D arrays
MaxDimLen == 2    \* longest dimension of the generated N-D arrays
MaxThreads == 2   \* largest worker pool

\* ------------------------------------------------------------------ values
Abs(x) == IF x < 0 THEN -x ELSE x

RECURSIVE Gcd(_, _)
Gcd(a, b) == IF b = 0 THEN a ELSE Gcd(b, a % b)

\* The rational n/d in lowest terms with a positive denominator (d # 0).
Rat(n, d) ==
    LET g == Gcd(Abs(n), Abs(d))
        s == IF d < 0 THEN -1 ELSE 1
    IN  [k |-> "fin", n |-> s * (n \div g), d |-> Abs(d) \div g]

Fin(n) == [k |-> "fin", n |-> n, d |-> 1]
NAN == [k |-> "nan", n |-> 0, d |-> 1]
INFINITY == [k |-> "inf", n |-> 1, d |-> 1]
NEG_INFINITY == [k |-> "inf", n |-> -1, d |-> 1]

\* Fault-injected variant: only NaN is treated as invalid.
is_finite_NanOnly(x) == x.k # "nan"
\* f32::is_finite / f64::is_finite
is_finite(x) == x.k = "fin"

\* a < b on the non-NaN values
Lt(a, b) ==
    IF a = NEG_INFINITY THEN b # NEG_INFINITY
    ELSE IF a = INFINITY THEN FALSE
    ELSE IF b = NEG_INFINITY THEN FALSE
    ELSE IF b = INFINITY THEN TRUE
    ELSE a.n * b.d < b.n * a.d

\* f32::min / f32::max: a NaN operand yields the other operand.
f32_min(a, b) == IF a.k = "nan" THEN b ELSE IF b.k = "nan" THEN a
                 ELSE IF Lt(b, a) THEN b ELSE a
f32_max(a, b) == IF a.k = "nan" THEN b ELSE IF b.k = "nan" THEN a
                 ELSE IF Lt(a, b) THEN b ELSE a

\* acc + x for finite operands
f_add(a, b) == Rat(a.n * b.d + b.n * a.d, a.d * b.d)

\* ------------------------------------------------------------------ shapes
RECURSIVE Product(_)
Product(s) == IF s = <<>> THEN 1 ELSE Head(s) * Product(Tail(s))

\* Vec::remove(axis) and the enumerate/filter of an index: s without s[axis].
RemoveAt(s, axis) == SubSeq(s, 1, axis) \o SubSeq(s, axis + 2, Len(s))

\* Fault-injected variant: the buffer is taken whatever its length.
from_shape_vec_Unchecked(shape, v) ==
    [kind |-> "ok", arr |-> [shape |-> shape, data |-> v]]
\* ArrayD::from_shape_vec: a row-major array, or a ShapeError.
from_shape_vec(shape, v) ==
    IF Len(v) = Product(shape)
    THEN [kind |-> "ok", arr |-> [shape |-> shape, data |-> v]]
    ELSE [kind |-> "err", err |-> [type |-> "ArrayError"]]

\* Row-major offset of in-bounds coordinates (last axis fastest).
RECURSIVE RowMajor(_, _, _)
RowMajor(shape, coords, off) ==
    IF shape = <<>> THEN off
    ELSE RowMajor(Tail(shape), Tail(coords), off * Head(shape) + Head(coords))

\* ArrayD::get(coords): the offset read, or -1 for None (out of bounds).
GetOffset(arr, coords) ==
    IF /\ Len(coords) = Len(arr.shape)
       /\ \A j \in 1..Len(coords) : coords[j] >= 0 /\ coords[j] < arr.shape[j]
    THEN RowMajor(arr.shape, coords, 0)
    ELSE -1

\* Row-major coordinates of a flat offset (ndarray's standard layout).
RECURSIVE Unravel(_, _)
Unravel(shape, flat) ==
    IF shape = <<>> THEN <<>>
    ELSE LET n == Len(shape)
             last == shape[n]
         IN  Unravel(SubSeq(shape, 1, n - 1), flat \div last) \o <<flat % last>>

InsertAt(s, axis, v) == SubSeq(s, 1, axis) \o <<v>> \o SubSeq(s, axis + 1, Len(s))

\* --------------------------------------------------- parallel_mean_axis
\* Fault-injected variant: the stride of the kept axis includes its own
\* length (new_shape[coord_idx..] instead of new_shape[coord_idx + 1..]).
DecodeStride_Inclusive(new_shape, coord_idx) ==
    Product(SubSeq(new_shape, coord_idx + 1, Len(new_shape)))
\* new_shape[coord_idx + 1..].iter().product()
DecodeStride(new_shape, coord_idx) ==
    Product(SubSeq(new_shape, coord_idx + 2, Len(new_shape)))

\* The loop over original_shape.iter().enumerate() from dim_idx onwards;
\* st = [panic, coords, remaining, coord_idx].  A zero stride panics
\* (division by zero).
RECURSIVE DecodeLoop(_, _, _, _, _)
DecodeLoop(original_shape, new_shape, axis, dim_idx, st) ==
    IF dim_idx >= Len(original_shape) \/ st.panic THEN st
    ELSE IF dim_idx = axis
    THEN DecodeLoop(original_shape, new_shape, axis, dim_idx + 1, st)
    ELSE LET stride == DecodeStride(new_shape, st.coord_idx)
         IN  IF stride = 0
             THEN [st EXCEPT !.panic = TRUE]
             ELSE DecodeLoop(original_shape, new_shape, axis, dim_idx + 1,
                    [panic |-> FALSE,
                     coords |-> [st.coords EXCEPT ![dim_idx + 1] = st.remaining \div stride],
                     remaining |-> st.remaining % stride,
                     coord_idx |-> st.coord_idx + 1])

\* Flat output index -> coordinates in the source, the reduced axis left 0.
DecodeCoords(original_shape, new_shape, axis, flat_idx) ==
    DecodeLoop(original_shape, new_shape, axis, 0,
               [panic |-> FALSE,
                coords |-> [j \in 1..Len(original_shape) |-> 0],
                remaining |-> flat_idx,
                coord_idx |-> 0])

\* let mut sum = 0.0_f64; let mut count = 0_i32; (reads: the offsets that
\* data_f64_array.get returned, in order)
MeanAccInit == [sum |-> Fin(0), count |-> 0, reads |-> <<>>]

\* One iteration of `for i in 0..axis_len`.
MeanStep(arr, axis, coords, i, acc) ==
    LET c == [coords EXCEPT ![axis + 1] = i]
        off == GetOffset(arr, c)
    IN  IF off = -1 THEN acc
        ELSE LET value == arr.data[off + 1]
             IN  IF is_finite(value)
                 THEN [sum |-> f_add(acc.sum, value),
                       count |-> acc.count + 1,
                       reads |-> Append(acc.reads, off)]
                 ELSE [acc EXCEPT !.reads = Append(acc.reads, off)]

\* Fault-injected variant: the divisor counts every value read, finite or
\* not.
MeanFinish_AllRead(acc) ==
    IF acc.count > 0 THEN Rat(acc.sum.n, acc.sum.d * Len(acc.reads)) ELSE NAN
\* if count > 0 { (sum / f64::from(count)) as f32 } else { f32::NAN }
MeanFinish(acc) ==
    IF acc.count > 0 THEN Rat(acc.sum.n, acc.sum.d * acc.count) ELSE NAN

RECURSIVE MeanWalk(_, _, _, _, _, _)
MeanWalk(arr, axis, coords, i, axis_len, acc) ==
    IF i >= axis_len THEN acc
    ELSE MeanWalk(arr, axis, coords, i + 1, axis_len,
                  MeanStep(arr, axis, coords, i, acc))

\* The closure of the parallel map, for one flat output index.
MeanCell(arr, axis, flat_idx) ==
    LET new_shape == RemoveAt(arr.shape, axis)
        axis_len == arr.shape[axis + 1]
        dec == DecodeCoords(arr.shape, new_shape, axis, flat_idx)
        acc == MeanWalk(arr, axis, dec.coords, 0, axis_len, MeanAccInit)
    IN  IF dec.panic THEN [panic |-> TRUE, value |-> NAN, reads |-> <<>>]
        ELSE [panic |-> FALSE, value |-> MeanFinish(acc), reads |-> acc.reads]

parallel_mean_axis(arr, axis) ==
    IF axis >= Len(arr.shape) THEN [kind |-> "panic"]   \* original_shape[axis]
    ELSE LET new_shape == RemoveAt(arr.shape, axis)
             output_size == Product(new_shape)
             cells == [j \in 1..output_size |-> MeanCell(arr, axis, j - 1)]
         IN  IF \E j \in 1..output_size : cells[j].panic
             THEN [kind |-> "panic"]
             ELSE from_shape_vec(new_shape, [j \in 1..output_size |-> cells[j].value])
\* ------------------------------------------- fold_axis and its kernels
\* The closures handed to fold_axis.
sum_fold(acc, x) == IF is_finite(x) THEN f_add(acc, x) ELSE acc
min_fold(acc, x) == IF is_finite(x) THEN f32_min(acc, x) ELSE acc
max_fold(acc, x) == IF is_finite(x) THEN f32_max(acc, x) ELSE acc

RECURSIVE FoldLane(_, _, _)
FoldLane(kernel, lane, acc) ==
    IF lane = <<>> THEN acc
    ELSE FoldLane(kernel, Tail(lane),
                  CASE kernel = "sum" -> sum_fold(acc, Head(lane))
                    [] kernel = "min" -> min_fold(acc, Head(lane))
                    [] kernel = "max" -> max_fold(acc, Head(lane)))

\* The values along `axis` at the output cell with flat index o, in order.
Lane(arr, axis, o) ==
    LET c == Unravel(RemoveAt(arr.shape, axis), o)
    IN  [i \in 1..arr.shape[axis + 1] |->
            arr.data[RowMajor(arr.shape, InsertAt(c, axis, i - 1), 0) + 1]]

\* ndarray's ArrayBase::fold_axis: one fold per output cell, over the lane
\* in index order; it panics when the axis is out of bounds.
fold_axis(arr, axis, init, kernel) ==
    IF axis >= Len(arr.shape) THEN [kind |-> "panic"]
    ELSE LET new_shape == RemoveAt(arr.shape, axis)
         IN  [kind |-> "ok",
              arr |-> [shape |-> new_shape,
                       data |-> [j \in 1..Product(new_shape) |->
                                   FoldLane(kernel, Lane(arr, axis, j - 1), init)]]]

\* result.mapv(f)
mapv_sentinel(res, sentinel) ==
    IF res.kind # "ok" THEN res
    ELSE [res EXCEPT !.arr.data =
            [j \in 1..Len(res.arr.data) |->
                IF res.arr.data[j] = sentinel THEN NAN ELSE res.arr.data[j]]]

parallel_sum_axis(arr, axis) == fold_axis(arr, axis, Fin(0), "sum")

\* Fault-injected variant: the +Infinity sentinel is returned as it is.
parallel_min_axis_KeepSentinel(arr, axis) == fold_axis(arr, axis, INFINITY, "min")
parallel_min_axis(arr, axis) ==
    mapv_sentinel(fold_axis(arr, axis, INFINITY, "min"), INFINITY)

parallel_max_axis(arr, axis) ==
    mapv_sentinel(fold_axis(arr, axis, NEG_INFINITY, "max"), NEG_INFINITY)

\* ------------------------------------------------------- StatOperation
StatOperation == {"Mean", "Sum", "Min", "Max"}

\* Fault-injected variant: the short spellings for Min and Max.
as_str_Short(op) ==
    CASE op = "Mean" -> "mean" [] op = "Sum" -> "sum"
      [] op = "Min" -> "min" [] op = "Max" -> "max"
as_str(op) ==
    CASE op = "Mean" -> "mean" [] op = "Sum" -> "sum"
      [] op = "Min" -> "minimum" [] op = "Max" -> "maximum"

\* Fault-injected variant: the result keeps the reduced axis with length 1.
reduce_along_axis_KeepDim(arr, axis, operation) ==
    LET r == CASE operation = "Mean" -> parallel_mean_axis(arr, axis)
               [] operation = "Sum" -> parallel_sum_axis(arr, axis)
               [] operation = "Min" -> parallel_min_axis(arr, axis)
               [] operation = "Max" -> parallel_max_axis(arr, axis)
    IN  IF axis >= Len(arr.shape) \/ r.kind # "ok" THEN r
        ELSE [r EXCEPT !.arr.shape = InsertAt(r.arr.shape, axis, 1)]
\* Fault-injected variant: no bound check, the axis goes to the kernel as it
\* is.
reduce_along_axis_NoCheck(arr, axis, operation) ==
    CASE operation = "Mean" -> parallel_mean_axis(arr, axis)
      [] operation = "Sum" -> parallel_sum_axis(arr, axis)
      [] operation = "Min" -> parallel_min_axis(arr, axis)
      [] operation = "Max" -> parallel_max_axis(arr, axis)
\* impl StatisticalReduction<f32> for ArrayD<f32>
reduce_along_axis(arr, axis, operation) ==
    IF axis >= Len(arr.shape)
    THEN [kind |-> "err",
          err |-> [type |-> "StatisticsError", axis |-> axis, ndim |-> Len(arr.shape)]]
    ELSE CASE operation = "Mean" -> parallel_mean_axis(arr, axis)
           [] operation = "Sum" -> parallel_sum_axis(arr, axis)
           [] operation = "Min" -> parallel_min_axis(arr, axis)
           [] operation = "Max" -> parallel_max_axis(arr, axis)
\* ================================================================ state
VARIABLES
    \* SpecKernel: the call's arguments, its position, its result and the
    \* offsets each Mean cell read
    k_in, k_pc, k_res, k_reads,
    \* SpecPar: the call's arguments, the pool size, the call's position,
    \* the output indices not yet taken, each worker's task, the output
    \* buffer, the tasks that wrote each slot, the tasks in the order they
    \* finished, the result
    p_in, p_threads, p_pc, p_pending, p_wk, p_out, p_written, p_done, p_res,
    \* SpecRequest: the opened file, the request, the call's position, the
    \* variable handle, dim_names, axis_index, the loaded array, the number
    \* of bulk reads, the reduced array, the error, the returned tuple
    file, r_in, r_pc, r_var, r_dim_names, r_axis, r_data, r_loads, r_reduced,
    r_err, r_res,
    \* SpecPool: the global worker pool's size (0 while it is not built), the
    \* size the runtime picks by itself on this host, the calls made so far
    pool, g_host, g_log,
    \* SpecWriter: what the output path holds, the source variable of the
    \* input file, write_result's arguments, its position, its loop index,
    \* the number of the call, its result, the warnings printed, the steps
    \* it performed
    disk, w_src, w_in, w_pc, w_i, w_call, w_res, w_warn, w_trace,
    \* SpecSlice: the --slice argument, the parsed SliceSpec, the variable,
    \* the position, the outcome, the number of reads of the variable
    s_arg, s_spec, s_var, s_pc, s_res, s_reads,
    \* SpecZarr: the files of the store, write_array's arguments, the
    \* position, the outcome of write_array, the outcome of read_array
    z_store, z_in, z_pc, z_wres, z_res,
    \* SpecPaths: the file and the request, and what the library's path, the
    \* binary's path and the legacy helper each returned for it
    q_in, q_lib, q_bin, q_leg,
    \* SpecDecode: the shape, axis and flat output index, and the
    \* coordinates each decoder produced
    d_in, d_out,
    \* SpecCount: the values along the reduced axis (as runs) and the build,
    \* the index of the next run, the accumulator of the Mean closure, the
    \* position, the cell's value
    c_in, c_i, c_acc, c_pc, c_res

kvars == <<k_in, k_pc, k_res, k_reads>>
pvars == <<p_in, p_threads, p_pc, p_pending, p_wk, p_out, p_written, p_done, p_res>>
rvars == <<file, r_in, r_pc, r_var, r_dim_names, r_axis, r_data, r_loads, r_reduced,
           r_err, r_res>>
gvars == <<pool, g_host, g_log>>
wvars == <<disk, w_src, w_in, w_pc, w_i, w_call, w_res, w_warn, w_trace>>
svars == <<s_arg, s_spec, s_var, s_pc, s_res, s_reads>>
zvars == <<z_store, z_in, z_pc, z_wres, z_res>>
qvars == <<q_in, q_lib, q_bin, q_leg>>
dvars == <<d_in, d_out>>
cvars == <<c_in, c_i, c_acc, c_pc, c_res>>
yvars == <<qvars, dvars, cvars>>
xvars == <<gvars, wvars, svars, zvars, yvars>>
vars == <<kvars, pvars, rvars, xvars>>

None == [kind |-> "none"]

PoolIdle == pool = 0 /\ g_host = 0 /\ g_log = <<>>

WriterIdle ==
    /\ disk = None /\ w_src = None /\ w_in = None /\ w_pc = "off" /\ w_i = 0
    /\ w_call = 0 /\ w_res = None /\ w_warn = <<>> /\ w_trace = <<>>

SliceIdle ==
    /\ s_arg = <<>> /\ s_spec = None /\ s_var = None /\ s_pc = "off"
    /\ s_res = None /\ s_reads = 0

ZarrIdle ==
    /\ z_store = None /\ z_in = None /\ z_pc = "off" /\ z_wres = None
    /\ z_res = None

PathsIdle == q_in = None /\ q_lib = None /\ q_bin = None /\ q_leg = None

DecodeIdle == d_in = None /\ d_out = None

CountIdle ==
    /\ c_in = None /\ c_i = 0 /\ c_acc = None /\ c_pc = "off" /\ c_res = None

AuxIdle == PathsIdle /\ DecodeIdle /\ CountIdle

ExtIdle == PoolIdle /\ WriterIdle /\ SliceIdle /\ ZarrIdle /\ AuxIdle

\* ------------------------------------------------------------- inputs
Vals == {Fin(v) : v \in (-1)..MaxVal} \cup {NAN, INFINITY, NEG_INFINITY}

SeqsUpTo(S, n) == UNION {[1..m -> S] : m \in 0..n}

\* Data of length n: 1, 2, 3, ... (the fixture of the unit tests), the same
\* with gaps (NaN, +Inf, -Inf on a cycle of four), or no valid value at all.
Patterns == {"ramp", "gaps", "invalid"}
PatternData(pat, n) ==
    [j \in 1..n |->
        CASE pat = "ramp" -> Fin(j)
          [] pat = "gaps" -> CASE j % 4 = 1 -> NAN
                               [] j % 4 = 2 -> Fin(j)
                               [] j % 4 = 3 -> INFINITY
                               [] OTHER -> IF j % 8 = 0 THEN NEG_INFINITY ELSE Fin(-j)
          [] pat = "invalid" -> NAN]

Shapes == UNION {[1..r -> 0..MaxDimLen] : r \in 2..MaxRank}

\* tests/unit_tests.rs, test_statistics_comprehensive: (time, lat, lon)
FixtureShape == <<4, 3, 2>>
FixtureArray == [shape |-> FixtureShape, data |-> [j \in 1..24 |-> Fin(j)]]
\* [1.0, NaN, 3.0, Inf, 5.0, -Inf]
SkipArray == [shape |-> <<6>>,
              data |-> <<Fin(1), NAN, Fin(3), INFINITY, Fin(5), NEG_INFINITY>>]

KernelArrays ==
    {[shape |-> <<Len(v)>>, data |-> v] : v \in SeqsUpTo(Vals, MaxLen)}
    \cup {[shape |-> sh, data |-> PatternData(pat, Product(sh))] :
            sh \in Shapes, pat \in Patterns}
    \cup {FixtureArray, SkipArray}

\* ----------------------------------------------------------- SpecKernel
KernelIdle ==
    /\ k_in = None /\ k_pc = "off" /\ k_res = None /\ k_reads = <<>>

\* The caller holds an array and picks an axis (up to two past the last one)
\* and an operation.
KernelInit ==
    /\ k_in \in {[arr |-> a, axis |-> ax, op |-> op] :
                    a \in KernelArrays, ax \in 0..(MaxRank + 1), op \in StatOperation}
    /\ k_in.axis <= Len(k_in.arr.shape) + 1
    /\ k_pc = "ready"
    /\ k_res = None
    /\ k_reads = <<>>

\* data.reduce_along_axis(axis, operation)
KernelReduce ==
    /\ k_pc = "ready"
    /\ k_res' = reduce_along_axis(k_in.arr, k_in.axis, k_in.op)
    /\ k_reads' = IF k_in.op = "Mean" /\ k_in.axis < Len(k_in.arr.shape)
                  THEN [j \in 1..Product(RemoveAt(k_in.arr.shape, k_in.axis)) |->
                           MeanCell(k_in.arr, k_in.axis, j - 1).reads]
                  ELSE <<>>
    /\ k_pc' = "done"
    /\ UNCHANGED <<k_in, pvars, rvars, xvars>>

\* The kernel of the operation, as statistics::mod re-exports it.
kernel_of(operation, arr, axis) ==
    CASE operation = "Mean" -> parallel_mean_axis(arr, axis)
      [] operation = "Sum" -> parallel_sum_axis(arr, axis)
      [] operation = "Min" -> parallel_min_axis(arr, axis)
      [] operation = "Max" -> parallel_max_axis(arr, axis)

\* A caller outside the trait: parallel_mean_axis(&data, axis) and the like,
\* with no check before it.
KernelDirect ==
    /\ k_pc = "ready"
    /\ k_res' = kernel_of(k_in.op, k_in.arr, k_in.axis)
    /\ k_pc' = "direct"
    /\ UNCHANGED <<k_in, k_reads, pvars, rvars, xvars>>

ParIdle ==
    /\ p_in = None /\ p_threads = 0 /\ p_pc = "off" /\ p_pending = {}
    /\ p_wk = <<>> /\ p_out = <<>> /\ p_written = <<>> /\ p_done = <<>>
    /\ p_res = None

ReqIdle ==
    /\ file = None /\ r_in = None /\ r_pc = "off" /\ r_var = None
    /\ r_dim_names = <<>> /\ r_axis = -1 /\ r_data = None /\ r_loads = 0
    /\ r_reduced = None /\ r_err = None /\ r_res = None

InitKernel == KernelInit /\ ParIdle /\ ReqIdle /\ ExtIdle

KernelNext == KernelReduce \/ KernelDirect

SpecKernel == InitKernel /\ [][KernelNext]_vars
\* ------------------------------------------- the reductions, as defined
\* The offsets of the source elements that agree with output cell o on
\* every axis but the reduced one.
CellOffsets(arr, axis, o) ==
    {off \in 0..(Product(arr.shape) - 1) :
        RemoveAt(Unravel(arr.shape, off), axis) = Unravel(RemoveAt(arr.shape, axis), o)}

FiniteOffsets(arr, axis, o) ==
    {off \in CellOffsets(arr, axis, o) : arr.data[off + 1].k = "fin"}

RECURSIVE SumOver(_, _)
SumOver(arr, S) ==
    IF S = {} THEN 0
    ELSE LET off == CHOOSE x \in S : TRUE
         IN  arr.data[off + 1].n + SumOver(arr, S \ {off})

\* The inputs are whole numbers (d = 1).
RefSum(arr, S) == Fin(SumOver(arr, S))
RefMean(arr, S) == Rat(SumOver(arr, S), Cardinality(S))
RefMin(arr, S) == Fin(CHOOSE m \in {arr.data[off + 1].n : off \in S} :
                        \A off \in S : m <= arr.data[off + 1].n)
RefMax(arr, S) == Fin(CHOOSE m \in {arr.data[off + 1].n : off \in S} :
                        \A off \in S : m >= arr.data[off + 1].n)
RefOf(op, arr, S) ==
    CASE op = "Mean" -> RefMean(arr, S) [] op = "Sum" -> RefSum(arr, S)
      [] op = "Min" -> RefMin(arr, S) [] op = "Max" -> RefMax(arr, S)

KernelDone == k_pc = "done" /\ k_res.kind = "ok"
KernelCells == 0..(Product(RemoveAt(k_in.arr.shape, k_in.axis)) - 1)
Range(f) == {f[j] : j \in DOMAIN f}

\* C3: in every output cell whose values along the reduced axis hold at
\* least one finite value, Sum, Min, Max and Mean are the sum, minimum,
\* maximum and mean of the finite values alone; [1, NaN, 3, Inf, 5, -Inf]
\* gives Sum 9, Min 1, Max 5 and Mean 3.
C3_NonFiniteSkipped ==
    KernelDone =>
        /\ \A o \in KernelCells :
              LET S == FiniteOffsets(k_in.arr, k_in.axis, o)
              IN  S # {} => k_res.arr.data[o + 1] = RefOf(k_in.op, k_in.arr, S)
        /\ k_in.arr = SkipArray =>
              k_res.arr.data = << CASE k_in.op = "Sum" -> Fin(9)
                                    [] k_in.op = "Min" -> Fin(1)
                                    [] k_in.op = "Max" -> Fin(5)
                                    [] k_in.op = "Mean" -> Fin(3) >>

C3_Witness ==
    /\ KernelDone /\ k_in.arr = SkipArray /\ k_in.op = "Mean"
    /\ k_res.arr.data = <<Fin(3)>>

\* C4: a cell with no finite value along the reduced axis (all NaN or
\* infinite, or an axis of length 0) is NaN for Min, Max and Mean and 0 for
\* Sum; and a Min or Max cell is NaN only then, being otherwise one of the
\* finite values.
C4_AllInvalid ==
    KernelDone =>
        \A o \in KernelCells :
            LET S == FiniteOffsets(k_in.arr, k_in.axis, o)
                v == k_res.arr.data[o + 1]
            IN  /\ S = {} => v = (IF k_in.op = "Sum" THEN Fin(0) ELSE NAN)
                /\ (k_in.op \in {"Min", "Max"} /\ S # {}) =>
                      v \in {k_in.arr.data[off + 1] : off \in S}

C4_Witness ==
    /\ KernelDone /\ k_in.op = "Min" /\ k_in.arr.shape = <<2>>
    /\ k_in.arr.data = <<NAN, INFINITY>> /\ k_res.arr.data = <<NAN>>

\* C5: for an axis below the rank every operation succeeds with the source
\* shape less its entry at the axis, the others in order; the data has one
\* element per cell, so a 1-D source yields a 0-dimensional array of one
\* element.
C5_AxisRemoved ==
    (k_pc = "done" /\ k_in.axis < Len(k_in.arr.shape)) =>
        /\ k_res.kind = "ok"
        /\ LET sh == k_in.arr.shape
               rs == k_res.arr.shape
           IN  /\ Len(rs) = Len(sh) - 1
               /\ \A j \in 1..Len(rs) : rs[j] = IF j <= k_in.axis THEN sh[j] ELSE sh[j + 1]
               /\ Len(k_res.arr.data) = Product(rs)
               /\ Len(sh) = 1 => rs = <<>> /\ Len(k_res.arr.data) = 1

C5_Witness ==
    /\ KernelDone /\ k_in.arr.shape = <<3>> /\ k_in.axis = 0 /\ k_in.op = "Max"
    /\ k_res.arr.shape = <<>> /\ Len(k_res.arr.data) = 1

\* C6: the Mean at output cell c reads exactly the source elements that
\* agree with c on the kept axes, one per position of the reduced axis, and
\* is the mean of the finite ones; for 1..24 in shape (4, 3, 2) the mean
\* over axis 0 is 10 at [0,0] and 11 at [0,1], over axis 1 it is 3 and 4.
C6_CellToSource ==
    (KernelDone /\ k_in.op = "Mean") =>
        /\ \A o \in KernelCells :
              LET S == FiniteOffsets(k_in.arr, k_in.axis, o)
              IN  /\ Range(k_reads[o + 1]) = CellOffsets(k_in.arr, k_in.axis, o)
                  /\ Len(k_reads[o + 1]) = k_in.arr.shape[k_in.axis + 1]
                  /\ k_res.arr.data[o + 1] =
                        IF S = {} THEN NAN ELSE RefMean(k_in.arr, S)
        /\ (k_in.arr = FixtureArray /\ k_in.axis = 0) =>
              k_res.arr.data[1] = Fin(10) /\ k_res.arr.data[2] = Fin(11)
        /\ (k_in.arr = FixtureArray /\ k_in.axis = 1) =>
              k_res.arr.data[1] = Fin(3) /\ k_res.arr.data[2] = Fin(4)

C6_Witness ==
    /\ KernelDone /\ k_in.op = "Mean" /\ k_in.arr = FixtureArray /\ k_in.axis = 1
    /\ k_res.arr.shape = <<4, 2>> /\ k_res.arr.data[1] = Fin(3)
    /\ k_reads[2] = <<1, 3, 5>>
\* ============================================================== SpecPar
\* (0..output_size).into_par_iter().map(closure).collect() on the pool:
\* every worker repeatedly takes an output index nobody has taken, runs the
\* closure on it and stores the value; the call returns after the join.
ParShapes == {<<0>>, <<1>>, <<3>>, <<2, 2>>, <<3, 2>>, <<2, 3>>, <<0, 2>>, <<2, 0>>,
              <<3, 3>>, <<2, 1, 2>>, <<2, 2, 2>>}

Uninit == [k |-> "uninit", n |-> 0, d |-> 1]
WorkerIdle == [st |-> "idle", idx |-> -1, coords |-> <<>>, i |-> 0, acc |-> MeanAccInit]

ParInit ==
    /\ p_in \in {[arr |-> [shape |-> sh, data |-> PatternData(pat, Product(sh))],
                  axis |-> ax, op |-> op] :
                    sh \in ParShapes, pat \in Patterns, ax \in 0..2, op \in StatOperation}
    /\ p_in.axis < Len(p_in.arr.shape)
    /\ p_threads \in 1..MaxThreads      \* rayon::current_num_threads()
    /\ p_pc = "call"
    /\ p_pending = {} /\ p_wk = <<>> /\ p_out = <<>> /\ p_written = <<>>
    /\ p_done = <<>> /\ p_res = None

p_new_shape == RemoveAt(p_in.arr.shape, p_in.axis)
p_axis_len == p_in.arr.shape[p_in.axis + 1]

\* Sum, Min, Max: fold_axis runs on the calling thread; no task is spawned.
ParFoldCall ==
    /\ p_pc = "call" /\ p_in.op # "Mean"
    /\ p_res' = reduce_along_axis(p_in.arr, p_in.axis, p_in.op)
    /\ p_pc' = "returned"
    /\ UNCHANGED <<kvars, rvars, xvars, p_in, p_threads, p_pending, p_wk, p_out, p_written, p_done>>

\* Mean: parallel_mean_axis up to the start of the parallel iterator.
ParMeanCall ==
    /\ p_pc = "call" /\ p_in.op = "Mean"
    /\ LET output_size == Product(p_new_shape)
       IN  /\ p_pending' = 0..(output_size - 1)
           /\ p_out' = [j \in 1..output_size |-> Uninit]
           /\ p_written' = [j \in 1..output_size |-> <<>>]
    /\ p_wk' = [w \in 1..p_threads |-> WorkerIdle]
    /\ p_pc' = "running"
    /\ UNCHANGED <<kvars, rvars, xvars, p_in, p_threads, p_done, p_res>>

\* A worker takes an index and decodes it (the head of the closure).
TaskStart(w, idx) ==
    /\ p_pc = "running" /\ p_wk[w].st = "idle" /\ idx \in p_pending
    /\ LET dec == DecodeCoords(p_in.arr.shape, p_new_shape, p_in.axis, idx)
       IN  IF dec.panic
           THEN p_pc' = "panic" /\ UNCHANGED p_wk
           ELSE /\ p_wk' = [p_wk EXCEPT ![w] =
                              [st |-> "walk", idx |-> idx, coords |-> dec.coords,
                               i |-> 0, acc |-> MeanAccInit]]
                /\ UNCHANGED p_pc
    /\ p_pending' = p_pending \ {idx}
    /\ UNCHANGED <<kvars, rvars, xvars, p_in, p_threads, p_out, p_written, p_done, p_res>>

\* One iteration of the closure's loop along the reduced axis.
TaskStep(w) ==
    /\ p_pc = "running" /\ p_wk[w].st = "walk" /\ p_wk[w].i < p_axis_len
    /\ p_wk' = [p_wk EXCEPT ![w].acc =
                   MeanStep(p_in.arr, p_in.axis, p_wk[w].coords, p_wk[w].i, p_wk[w].acc),
                            ![w].i = p_wk[w].i + 1]
    /\ UNCHANGED <<kvars, rvars, xvars, p_in, p_threads, p_pc, p_pending, p_out, p_written, p_done, p_res>>

\* Fault-injected variant: values are stored in the order they complete.
SlotOf_CompletionOrder(idx, ndone) == ndone
\* The indexed collect stores the value of index idx at position idx.
SlotOf(idx, ndone) == idx

\* The closure returns and its value is stored in the output buffer.
TaskFinish(w) ==
    /\ p_pc = "running" /\ p_wk[w].st = "walk" /\ p_wk[w].i >= p_axis_len
    /\ LET slot == SlotOf(p_wk[w].idx, Len(p_done)) + 1
       IN  /\ p_out' = [p_out EXCEPT ![slot] = MeanFinish(p_wk[w].acc)]
           /\ p_written' = [p_written EXCEPT ![slot] = Append(@, p_wk[w].idx)]
    /\ p_done' = Append(p_done, p_wk[w].idx)
    /\ p_wk' = [p_wk EXCEPT ![w] = WorkerIdle]
    /\ UNCHANGED <<kvars, rvars, xvars, p_in, p_threads, p_pc, p_pending, p_res>>

\* Fault-injected variant: the call returns once every index is taken.
JoinReady_AllTaken == p_pending = {}
\* collect() returns when every task has finished.
JoinReady == p_pending = {} /\ \A w \in DOMAIN p_wk : p_wk[w].st = "idle"

\* Ok(ArrayD::from_shape_vec(new_shape, result)?)
ParReturn ==
    /\ p_pc = "running" /\ JoinReady
    /\ p_res' = from_shape_vec(p_new_shape, p_out)
    /\ p_pc' = "returned"
    /\ UNCHANGED <<kvars, rvars, xvars, p_in, p_threads, p_pending, p_wk, p_out, p_written, p_done>>

ParNext ==
    \/ ParFoldCall
    \/ ParMeanCall
    \/ \E w \in DOMAIN p_wk : \E idx \in p_pending : TaskStart(w, idx)
    \/ \E w \in DOMAIN p_wk : TaskStep(w)
    \/ \E w \in DOMAIN p_wk : TaskFinish(w)
    \/ ParReturn

InitPar == ParInit /\ KernelIdle /\ ReqIdle /\ ExtIdle

SpecPar == InitPar /\ [][ParNext]_vars

\* The reduction of the call's array, cell by cell, as defined.
RefArray(arr, axis, op) ==
    [shape |-> RemoveAt(arr.shape, axis),
     data |-> [j \in 1..Product(RemoveAt(arr.shape, axis)) |->
                 LET S == FiniteOffsets(arr, axis, j - 1)
                 IN  IF S = {} THEN (IF op = "Sum" THEN Fin(0) ELSE NAN)
                     ELSE RefOf(op, arr, S)]]

\* C1: whatever the pool size and the order in which the workers take,
\* run and finish the tasks, the call returns the one array that the
\* source, the axis and the operation determine.
C1_Deterministic ==
    p_pc = "returned" =>
        p_res = [kind |-> "ok", arr |-> RefArray(p_in.arr, p_in.axis, p_in.op)]

\* Two workers, three tasks finished out of index order, and a cell whose
\* lane is <<2, NaN>>.
C1_Witness ==
    /\ p_pc = "returned" /\ p_in.op = "Mean" /\ p_threads = 2
    /\ p_in.arr.shape = <<2, 3>> /\ p_in.axis = 0
    /\ p_done = <<2, 0, 1>>
    /\ p_res.kind = "ok" /\ p_res.arr.data[2] = Fin(2)

\* C2: no slot is ever written by a task other than the one that took its
\* index, nor twice; and when the call returns every slot has been written
\* and no task is pending or running.
C2_WriteOnce ==
    p_in.op = "Mean" =>
        /\ \A j \in DOMAIN p_written : p_written[j] \in {<<>>, <<j - 1>>}
        /\ p_pc = "returned" =>
              /\ \A j \in DOMAIN p_written : p_written[j] = <<j - 1>>
              /\ DOMAIN p_written = 1..Product(p_new_shape)
              /\ p_pending = {}
              /\ \A w \in DOMAIN p_wk : p_wk[w].st = "idle"

C2_Witness ==
    /\ p_pc = "returned" /\ p_in.op = "Mean" /\ p_threads = 2
    /\ p_done = <<3, 1, 0, 2>> /\ p_written[4] = <<3>>
\* ========================================================== SpecRequest
\* compute_stat_over_dimension(file, var_name, dim_name, operation)
DimNames == {"time", "lat", "lon"}

\* Dimension lengths of the files drawn: time, lat and lon as in the unit
\* tests; a dimension used twice by a variable has one length.
DimLen(name) ==
    CASE name = "time" -> 4 [] name = "lat" -> 3 [] name = "lon" -> 2
      [] name = "y" -> 3 [] OTHER -> 2

\* A scalar variable has no dimension.
DimLists ==
    UNION {[1..r -> DimNames] : r \in 0..MaxRank}
    \cup {<<"a", "b", "c", "d">>, <<"x", "y">>}

RequestDims == DimNames \cup {"a", "b", "c", "d", "x", "y", "bogus", "invalid_dim"}
RequestVars == {"temperature", "invalid_var"}

FileOf(dims, pat) ==
    [var |-> "temperature",
     dims |-> dims,
     data |-> PatternData(pat, Product([j \in 1..Len(dims) |-> DimLen(dims[j])]))]

ReqInit ==
    /\ file \in {FileOf(dims, pat) : dims \in DimLists, pat \in Patterns}
    /\ r_in \in [var : RequestVars, dim : RequestDims, op : StatOperation]
    /\ r_pc = "lookup"
    /\ r_var = None /\ r_dim_names = <<>> /\ r_axis = -1 /\ r_data = None
    /\ r_loads = 0 /\ r_reduced = None /\ r_err = None /\ r_res = None

\* Fault-injected variant: the values are loaded before the dimension is
\* resolved.
StageAfter_LoadFirst(stage) ==
    CASE stage = "lookup" -> "load" [] stage = "load" -> "dims"
      [] stage = "dims" -> "reduce" [] stage = "reduce" -> "finish"
      [] stage = "finish" -> "done"
\* The order of the statements of compute_stat_over_dimension.
StageAfter(stage) ==
    CASE stage = "lookup" -> "dims" [] stage = "dims" -> "load"
      [] stage = "load" -> "reduce" [] stage = "reduce" -> "finish"
      [] stage = "finish" -> "done"

\* file.variable(var_name): the handle, or None
file_variable(f, var_name) ==
    IF f.var = var_name THEN [kind |-> "var", name |-> f.var, dims |-> f.dims] ELSE None

\* Fault-injected variant: the last matching position.
RECURSIVE position_Last(_, _, _)
position_Last(names, dim_name, i) ==
    IF i >= Len(names) THEN -1
    ELSE LET rest == position_Last(names, dim_name, i + 1)
         IN  IF rest # -1 THEN rest
             ELSE IF names[i + 1] = dim_name THEN i ELSE -1
\* iter().position(|d| d == dim_name) from index i on: the first match, or
\* -1 for None
RECURSIVE position(_, _, _)
position(names, dim_name, i) ==
    IF i >= Len(names) THEN -1
    ELSE IF names[i + 1] = dim_name THEN i
    ELSE position(names, dim_name, i + 1)

\* Fault-injected variant: every dimension named like the reduced one is
\* dropped.
kept_dim_names_ByName(dim_names, axis_index, i) ==
    SelectSeq(dim_names, LAMBDA n : n # dim_names[axis_index + 1])
\* into_iter().enumerate().filter_map(|(i, name)| if i == axis_index
\* { None } else { Some(name) }) from index i on
RECURSIVE kept_dim_names(_, _, _)
kept_dim_names(dim_names, axis_index, i) ==
    IF i >= Len(dim_names) THEN <<>>
    ELSE (IF i = axis_index THEN <<>> ELSE <<dim_names[i + 1]>>)
         \o kept_dim_names(dim_names, axis_index, i + 1)

\* format!("{var_name}_{operation_name}_over_{dim_name}")
new_var_name(var_name, operation_name, dim_name) ==
    var_name \o "_" \o operation_name \o "_over_" \o dim_name

\* RuNeVisError::DimensionNotFound { var, dim }
DimensionNotFound(var_name, dim_name) ==
    [type |-> "DimensionNotFound", var |-> var_name, dim |-> dim_name]

\* let var = file.variable(var_name).ok_or_else(VariableNotFound)?
LookupVariable ==
    /\ r_pc = "lookup"
    /\ LET v == file_variable(file, r_in.var)
       IN  IF v = None
           THEN /\ r_err' = [type |-> "VariableNotFound", var |-> r_in.var]
                /\ r_pc' = "failed"
                /\ UNCHANGED r_var
           ELSE /\ r_var' = v
                /\ r_pc' = StageAfter("lookup")
                /\ UNCHANGED r_err
    /\ UNCHANGED <<kvars, pvars, xvars, file, r_in, r_dim_names, r_axis, r_data, r_loads, r_reduced, r_res>>

\* dim_names, then axis_index = position(..).ok_or_else(DimensionNotFound)?
ResolveDimension ==
    /\ r_pc = "dims"
    /\ r_dim_names' = r_var.dims
    /\ LET axis_index == position(r_var.dims, r_in.dim, 0)
       IN  IF axis_index = -1
           THEN /\ r_err' = DimensionNotFound(r_in.var, r_in.dim)
                /\ r_pc' = "failed"
                /\ UNCHANGED r_axis
           ELSE /\ r_axis' = axis_index
                /\ r_pc' = StageAfter("dims")
                /\ UNCHANGED r_err
    /\ UNCHANGED <<kvars, pvars, xvars, file, r_in, r_var, r_data, r_loads, r_reduced, r_res>>

\* shape, var.get_values::<f32, _>(..)?, ArrayD::from_shape_vec(shape, data_vec)?
LoadData ==
    /\ r_pc = "load"
    /\ r_loads' = r_loads + 1
    /\ LET shape == [j \in 1..Len(r_var.dims) |-> DimLen(r_var.dims[j])]
           a == from_shape_vec(shape, file.data)
       IN  IF a.kind = "ok"
           THEN r_data' = a.arr /\ r_pc' = StageAfter("load") /\ UNCHANGED r_err
           ELSE r_err' = a.err /\ r_pc' = "failed" /\ UNCHANGED r_data
    /\ UNCHANGED <<kvars, pvars, xvars, file, r_in, r_var, r_dim_names, r_axis, r_reduced, r_res>>

\* The buffers get_values can hand back when the variable no longer holds
\* what its dimensions declared as the shape was taken: one value more, or
\* one less.
Resized(v) ==
    {v \o <<NAN>>} \cup (IF v = <<>> THEN {} ELSE {SubSeq(v, 1, Len(v) - 1)})

\* The same statements, the variable having changed under the reader
\* between var.dimensions() and var.get_values(..).
LoadDataResized ==
    /\ r_pc = "load"
    /\ r_loads' = r_loads + 1
    /\ \E buf \in Resized(file.data) :
          /\ file' = [file EXCEPT !.data = buf]
          /\ LET shape == [j \in 1..Len(r_var.dims) |-> DimLen(r_var.dims[j])]
                 a == from_shape_vec(shape, buf)
             IN  IF a.kind = "ok"
                 THEN r_data' = a.arr /\ r_pc' = StageAfter("load") /\ UNCHANGED r_err
                 ELSE r_err' = a.err /\ r_pc' = "failed" /\ UNCHANGED r_data
    /\ UNCHANGED <<kvars, pvars, xvars, r_in, r_var, r_dim_names, r_axis, r_reduced, r_res>>

\* var.get_values fails in the library: the read was attempted.
LoadDataFails ==
    /\ r_pc = "load"
    /\ r_loads' = r_loads + 1
    /\ r_err' = [type |-> "NetCDFError"]
    /\ r_pc' = "failed"
    /\ UNCHANGED <<kvars, pvars, xvars, file, r_in, r_var, r_dim_names, r_axis, r_data, r_reduced, r_res>>

\* let result_array = data.reduce_along_axis(axis_index, operation)?
ReduceData ==
    /\ r_pc = "reduce"
    /\ LET r == reduce_along_axis(r_data, r_axis, r_in.op)
       IN  IF r.kind = "ok"
           THEN r_reduced' = r.arr /\ r_pc' = StageAfter("reduce") /\ UNCHANGED r_err
           ELSE r_err' = r /\ r_pc' = "failed" /\ UNCHANGED r_reduced
    /\ UNCHANGED <<kvars, pvars, xvars, file, r_in, r_var, r_dim_names, r_axis, r_data, r_loads, r_res>>

\* kept_dim_names, new_var_name, Ok((result_array, kept_dim_names, new_var_name))
FinishRequest ==
    /\ r_pc = "finish"
    /\ r_res' = [data |-> r_reduced,
                 kept |-> kept_dim_names(r_dim_names, r_axis, 0),
                 name |-> new_var_name(r_in.var, as_str(r_in.op), r_in.dim)]
    /\ r_pc' = StageAfter("finish")
    /\ UNCHANGED <<kvars, pvars, xvars, file, r_in, r_var, r_dim_names, r_axis, r_data, r_loads, r_reduced,
                   r_err>>

ReqNext ==
    \/ LookupVariable
    \/ ResolveDimension
    \/ LoadData
    \/ LoadDataResized
    \/ LoadDataFails
    \/ ReduceData
    \/ FinishRequest

InitRequest == ReqInit /\ KernelIdle /\ ParIdle /\ ExtIdle

SpecRequest == InitRequest /\ [][ReqNext]_vars
\* The positions (0-based) of the requested name in the variable's
\* dimension list.
Matches == {i \in 0..(Len(file.dims) - 1) : file.dims[i + 1] = r_in.dim}
FirstMatch == CHOOSE i \in Matches : \A j \in Matches : i <= j

\* C7: values are read only after the variable was found and the dimension
\* resolved, and a call that ends in VariableNotFound or DimensionNotFound
\* has read none.
C7_FailFast ==
    /\ r_loads > 0 => (r_var # None /\ r_axis # -1)
    /\ (r_pc = "failed" /\ r_err.type \in {"VariableNotFound", "DimensionNotFound"})
          => r_loads = 0

C7_Witness ==
    /\ r_pc = "failed" /\ r_err.type = "DimensionNotFound" /\ r_var # None
    /\ r_loads = 0

\* C8: once resolved, axis_index is the first position of the requested
\* name; when the variable has no such dimension the call fails with
\* DimensionNotFound carrying the requested variable and dimension names
\* and returns no result (dims [x, y], dimension "bogus").
C8_DimensionResolved ==
    /\ r_pc \in {"load", "reduce", "finish", "done"} =>
          (Matches # {} /\ r_axis = FirstMatch)
    /\ (r_pc = "failed" /\ r_err.type = "DimensionNotFound") =>
          /\ Matches = {}
          /\ r_err.var = r_in.var /\ r_err.dim = r_in.dim
          /\ r_res = None
    /\ (Matches = {} /\ r_var # None) =>
          /\ r_pc \in {"dims", "failed"}
          /\ r_pc = "failed" => r_err.type = "DimensionNotFound"
    /\ (file.dims = <<"x", "y">> /\ r_in.dim = "bogus" /\ r_pc = "failed"
        /\ r_var # None) =>
          r_err = [type |-> "DimensionNotFound", var |-> "temperature", dim |-> "bogus"]

C8_Witness ==
    /\ r_pc = "failed" /\ file.dims = <<"x", "y">> /\ r_in.dim = "bogus"
    /\ r_err = [type |-> "DimensionNotFound", var |-> "temperature", dim |-> "bogus"]

\* A dimension used twice: the first position is the one resolved.
C8_WitnessFirst ==
    /\ r_pc = "done" /\ file.dims = <<"lat", "time", "time">> /\ r_in.dim = "time"
    /\ r_axis = 1

\* C9: the returned names are the variable's dimension names less the one
\* at axis_index, the others in their order, one per axis of the result
\* (reducing b from [a, b, c, d] gives [a, c, d]).
C9_KeptNames ==
    r_pc = "done" =>
        /\ Len(r_res.kept) = Len(file.dims) - 1
        /\ Len(r_res.kept) = Len(r_res.data.shape)
        /\ \A j \in 1..Len(r_res.kept) :
              /\ r_res.kept[j] = IF j <= r_axis THEN file.dims[j] ELSE file.dims[j + 1]
              /\ r_res.data.shape[j] = DimLen(r_res.kept[j])
        /\ (file.dims = <<"a", "b", "c", "d">> /\ r_in.dim = "b") =>
              r_res.kept = <<"a", "c", "d">>

C9_Witness ==
    /\ r_pc = "done" /\ file.dims = <<"a", "b", "c", "d">> /\ r_in.dim = "b"
    /\ r_res.kept = <<"a", "c", "d">>

\* C10: the returned name is the variable name, "_", the operation spelled
\* mean, sum, minimum or maximum, "_over_" and the dimension name.
C10_DerivedName ==
    r_pc = "done" =>
        /\ r_res.name =
              r_in.var \o (CASE r_in.op = "Mean" -> "_mean_over_"
                             [] r_in.op = "Sum" -> "_sum_over_"
                             [] r_in.op = "Min" -> "_minimum_over_"
                             [] r_in.op = "Max" -> "_maximum_over_") \o r_in.dim
        /\ (r_in.var = "temperature" /\ r_in.dim = "time" /\ r_in.op = "Mean") =>
              r_res.name = "temperature_mean_over_time"

C10_Witness ==
    /\ r_pc = "done" /\ r_in.op = "Min" /\ r_in.dim = "lat"
    /\ r_res.name = "temperature_minimum_over_lat"

\* ============================================================ SpecPool
\* src/src/parallel.rs and src/src/main.rs: the process-wide rayon pool.
MaxCalls == 3

Some(v) == [kind |-> "some", v |-> v]
Ok == [kind |-> "ok"]

\* ParallelConfig { num_threads: Option<usize> } and Args.threads
PoolConfigs == {None} \cup {Some(n) : n \in 0..MaxThreads}

ThreadPoolError(num_threads) ==
    [kind |-> "err", err |-> [type |-> "ThreadPoolError", threads |-> num_threads]]

\* ThreadPoolBuilder::new().num_threads(n): with n = 0 the runtime selects
\* the number of threads by itself.
num_threads(n, host) == IF n = 0 THEN host ELSE n

\* ThreadPoolBuilder::build_global(): the global pool is built at most once;
\* the call is an error once the pool exists.
build_global(cur, n, host) ==
    IF cur # 0
    THEN [kind |-> "err", pool |-> cur]
    ELSE [kind |-> "ok", pool |-> num_threads(n, host)]

\* The first parallel call or rayon::current_num_threads() builds the pool
\* with the size the runtime selects, if it does not exist yet.
global_registry(cur, host) == IF cur # 0 THEN cur ELSE host

setup_global_pool(cfg, cur, host) ==
    IF cfg.kind = "some"
    THEN LET b == build_global(cur, cfg.v, host)
         IN  IF b.kind = "err"
             THEN [res |-> ThreadPoolError(cfg.v), pool |-> cur]
             ELSE [res |-> Ok, pool |-> b.pool]
    ELSE [res |-> Ok, pool |-> cur]

\* main, "Initialize Rayon thread pool with specified number of threads"
main_thread_pool(threads, cur, host) ==
    IF threads.kind = "some"
    THEN LET b == build_global(cur, threads.v, host)
         IN  IF b.kind = "err"
             THEN [res |-> [kind |-> "err", err |-> [type |-> "Box<dyn Error>"]],
                   pool |-> cur]
             ELSE [res |-> Ok, pool |-> b.pool]
    ELSE [res |-> Ok, pool |-> global_registry(cur, host)]

PoolCall(op, cfg, r) ==
    [op |-> op, cfg |-> cfg, before |-> pool, res |-> r.res, after |-> r.pool]

PoolInit ==
    /\ pool = 0
    /\ g_host \in 1..MaxThreads
    /\ g_log = <<>>

\* The binary's start-up: the first thing the process does.
MainThreadPool ==
    /\ g_log = <<>>
    /\ \E threads \in PoolConfigs :
          LET r == main_thread_pool(threads, pool, g_host)
          IN  /\ pool' = r.pool
              /\ g_log' = Append(g_log, PoolCall("main", threads, r))
    /\ UNCHANGED <<kvars, pvars, rvars, yvars, wvars, svars, zvars, g_host>>

\* config.setup_global_pool()
SetupGlobalPool ==
    /\ Len(g_log) < MaxCalls
    /\ \E cfg \in PoolConfigs :
          LET r == setup_global_pool(cfg, pool, g_host)
          IN  /\ pool' = r.pool
              /\ g_log' = Append(g_log, PoolCall("setup", cfg, r))
    /\ UNCHANGED <<kvars, pvars, rvars, yvars, wvars, svars, zvars, g_host>>

\* A reduction call: its into_par_iter() runs on the global pool.
ReductionCall ==
    /\ Len(g_log) < MaxCalls
    /\ LET r == [res |-> Ok, pool |-> global_registry(pool, g_host)]
       IN  /\ pool' = r.pool
           /\ g_log' = Append(g_log, PoolCall("reduce", None, r))
    /\ UNCHANGED <<kvars, pvars, rvars, yvars, wvars, svars, zvars, g_host>>

PoolNext ==
    \/ MainThreadPool
    \/ SetupGlobalPool
    \/ ReductionCall

InitPool ==
    /\ PoolInit /\ KernelIdle /\ ParIdle /\ ReqIdle /\ WriterIdle /\ SliceIdle /\ ZarrIdle
    /\ AuxIdle

SpecPool == InitPool /\ [][PoolNext]_vars

\* The pool's size is fixed by the call that builds it: no later call of any
\* kind changes it.
PoolSizeFixed ==
    \A i \in 1..Len(g_log) : g_log[i].before # 0 => g_log[i].after = g_log[i].before

\* C11: the pool's size never changes once the pool is configured or used,
\* and every setup_global_pool call made after that returns ThreadPoolError
\* (none returns success without doing anything).
C11_ConfiguredOnce ==
    /\ PoolSizeFixed
    /\ \A i \in 1..Len(g_log) :
          (g_log[i].op = "setup" /\ g_log[i].before # 0) =>
              /\ g_log[i].res.kind = "err"
              /\ g_log[i].res.err.type = "ThreadPoolError"

\* C12: setup_global_pool with num_threads = Some(0) returns ThreadPoolError
\* and leaves the pool unconfigured.
C12_ZeroThreadsRejected ==
    \A i \in 1..Len(g_log) :
        (g_log[i].op = "setup" /\ g_log[i].cfg = Some(0)) =>
            /\ g_log[i].res.kind = "err"
            /\ g_log[i].res.err.type = "ThreadPoolError"
            /\ g_log[i].after = g_log[i].before

\* ========================================================== SpecWriter
\* src/src/netcdf_io.rs, NetCDFWriter::write_result, one library call per
\* step; the output path is the same in every call of a run.
MaxWrites == 2

\* An attribute and its netcdf::AttributeValue: the variant (type) and its
\* strings or numbers, a scalar being a list of one; numbers are whole.
AttrS(name, type, strs) == [name |-> name, type |-> type, strs |-> strs, nums |-> <<>>]
AttrN(name, type, nums) == [name |-> name, type |-> type, strs |-> <<>>, nums |-> nums]

\* f32 holds 24 bits of mantissa: whole numbers are exact below 2^24.
F32_EXACT == 16777216

RECURSIVE f32_ulp(_)
f32_ulp(a) == IF a < F32_EXACT THEN 1 ELSE 2 * f32_ulp(a \div 2)

\* `v as f32` of an f64 or i16 whole number: round to nearest, ties to even
as_f32(v) ==
    LET a == Abs(v)
        u == f32_ulp(a)
        q == a \div u
        r == a % u
        m == IF 2 * r < u THEN q
             ELSE IF 2 * r > u THEN q + 1
             ELSE IF q % 2 = 0 THEN q ELSE q + 1
    IN  IF v < 0 THEN -(m * u) ELSE m * u

\* The variables of the input file, by their attributes.
\* tests/unit_tests.rs, test_netcdf_writer: units = "test_units"
TestVarAttrs == <<AttrS("units", "Str", <<"test_units">>)>>
SourceAttrs ==
    {TestVarAttrs,
     <<>>,
     <<AttrS("units", "Str", <<"K">>), AttrN("_FillValue", "Float", <<-999>>),
       AttrN("valid_range", "Shorts", <<0, 100>>)>>,
     <<AttrN("_FillValue", "Double", <<16777217>>), AttrN("flag", "Uchar", <<1>>),
       AttrN("scale_factor", "Double", <<2>>)>>,
     <<AttrN("_FillValue", "Short", <<-32768>>), AttrN("count", "Int", <<5>>),
       AttrN("levels", "Floats", <<1, 2>>)>>,
     <<AttrN("ids", "Ulonglongs", <<1, 2>>), AttrN("_FillValue", "Int", <<-1>>),
       AttrS("tags", "Strs", <<"a", "b">>)>>,
     <<AttrN("steps", "Ints", <<1, 2>>), AttrN("weights", "Doubles", <<1, 2>>),
       AttrN("level", "Short", <<7>>), AttrN("offset", "Float", <<1>>)>>}

\* tests/unit_tests.rs, test_netcdf_writer: a (2, 3) array on (x, y)
WriterArrays ==
    {[shape |-> <<2, 3>>, data |-> [j \in 1..6 |-> Fin(j)]],
     [shape |-> <<2, 2>>, data |-> <<Fin(1), NAN, Fin(3), Fin(4)>>],
     [shape |-> <<2>>, data |-> <<Fin(1), NAN>>],
     [shape |-> <<>>, data |-> <<Fin(3)>>]}
WriterDimNames == {<<>>, <<"x">>, <<"x", "y">>, <<"y", "x">>, <<"x", "x">>}

WriterRequests ==
    {[data |-> d, dim_names |-> n, var_name |-> "result_var", original_var_name |-> o] :
        d \in WriterArrays, n \in WriterDimNames, o \in {"test_var", "missing"}}

NetCDFError(step) == [kind |-> "err", err |-> [type |-> "NetCDFError", step |-> step]]
IoError(step) == [kind |-> "err", err |-> [type |-> "IoError", step |-> step]]
VariableNotFound(var) == [kind |-> "err", err |-> [type |-> "VariableNotFound", var |-> var]]

\* dim_names.iter().zip(data.shape()): the pairs up to the shorter length
zip_dims(dim_names, shape) ==
    [j \in 1..(IF Len(dim_names) < Len(shape) THEN Len(dim_names) ELSE Len(shape)) |->
        [name |-> dim_names[j], len |-> shape[j]]]

\* self.input_file.variable(original_var_name)
input_variable(src, name) == IF name = "test_var" THEN Some(src.attrs) ELSE None

\* orig_var.attribute("_FillValue").and_then(...): the fill value as f32
fill_value(attrs) ==
    IF \E j \in DOMAIN attrs : attrs[j].name = "_FillValue"
    THEN LET a == attrs[CHOOSE j \in DOMAIN attrs : attrs[j].name = "_FillValue"]
         IN  CASE a.type = "Float" -> Some(a.nums[1])
               [] a.type = "Double" -> Some(as_f32(a.nums[1]))
               [] a.type = "Short" -> Some(as_f32(a.nums[1]))
               [] OTHER -> None
    ELSE None

\* Fault-injected variant: the loop sees every attribute.
other_attributes_All(attrs) == attrs
\* orig_var.attributes().filter(|a| a.name() != "_FillValue")
other_attributes(attrs) == SelectSeq(attrs, LAMBDA a : a.name # "_FillValue")

\* The arms of the match on attr.value() that call put_attribute.
\* Fault-injected variant: the list-valued arms are missing.
is_copied_ScalarsOnly(type) ==
    type \in {"Str", "Float", "Double", "Int", "Short"}

is_copied(type) ==
    type \in {"Str", "Strs", "Float", "Floats", "Double", "Doubles",
              "Int", "Ints", "Short", "Shorts"}

\* fs::remove_file(self.output_path): the path holds nothing afterwards.
\* Fault-injected variant: the old file stays.
remove_file_Keep(d) == d

remove_file(d) == None

\* create(self.output_path): a new, empty dataset written by this call
create(call) == [call |-> call, dims |-> <<>>, var |-> None, attrs |-> <<>>]

dim_defined(d, name) == \E j \in DOMAIN d.dims : d.dims[j].name = name
dim_len(d, name) == d.dims[CHOOSE j \in DOMAIN d.dims : d.dims[j].name = name].len
var_shape(d) == [j \in DOMAIN d.var.dims |-> dim_len(d, d.var.dims[j])]

\* dim_names.iter().map(|s| s.as_str()).collect(): the names in order.
\* Fault-injected variant: the names in reverse order.
dim_refs_Reversed(dim_names) ==
    [j \in DOMAIN dim_names |-> dim_names[Len(dim_names) + 1 - j]]

dim_refs(dim_names) == [j \in DOMAIN dim_names |-> dim_names[j]]

\* The step after add_variable: `if let Some(fv) = fill_value` comes before
\* new_var.put.
\* Fault-injected variant: the data is written at once.
after_add_variable_DataFirst(fv) == "put"

after_add_variable(fv) == IF fv.kind = "some" THEN "fill" ELSE "put"

\* The step after new_var.put: the loop over the other attributes, then the
\* history attribute.
\* Fault-injected variant: the history attribute comes right after the data.
after_put_HistoryNext(attrs) == "history"

after_put(attrs) == IF other_attributes(attrs) = <<>> THEN "history" ELSE "attrs"

WriterInit ==
    /\ disk = None
    /\ w_src \in {[attrs |-> a] : a \in SourceAttrs}
    /\ w_in \in WriterRequests
    /\ w_pc = "exists"
    /\ w_i = 0
    /\ w_call = 1
    /\ w_res = None
    /\ w_warn = <<>>
    /\ w_trace = <<>>

\* if self.output_path.exists() { fs::remove_file(self.output_path)?; }
RemoveOld ==
    /\ w_pc = "exists"
    /\ IF disk # None
       THEN disk' = remove_file(disk) /\ w_trace' = Append(w_trace, "remove")
       ELSE UNCHANGED <<disk, w_trace>>
    /\ w_pc' = "create"
    /\ UNCHANGED <<kvars, pvars, rvars, yvars, gvars, svars, zvars, w_src, w_in, w_i, w_call, w_res,
                   w_warn>>

\* let mut file = create(self.output_path)?;
CreateFile ==
    /\ w_pc = "create"
    /\ disk' = create(w_call)
    /\ w_trace' = Append(w_trace, "create")
    /\ w_i' = 1
    /\ w_pc' = IF zip_dims(w_in.dim_names, w_in.data.shape) = <<>> THEN "lookup" ELSE "dims"
    /\ UNCHANGED <<kvars, pvars, rvars, yvars, gvars, svars, zvars, w_src, w_in, w_call, w_res, w_warn>>

\* file.add_dimension(dim_name, dim_len)? in the loop over the zipped
\* pairs; a name already defined in the file is an error of the library.
AddDimension ==
    /\ w_pc = "dims"
    /\ LET pairs == zip_dims(w_in.dim_names, w_in.data.shape)
           p == pairs[w_i]
       IN  IF dim_defined(disk, p.name)
           THEN /\ w_res' = NetCDFError("dims")
                /\ w_pc' = "done"
                /\ UNCHANGED <<disk, w_trace, w_i>>
           ELSE /\ disk' = [disk EXCEPT !.dims = Append(@, p)]
                /\ w_trace' = Append(w_trace, "dim")
                /\ w_i' = w_i + 1
                /\ w_pc' = IF w_i = Len(pairs) THEN "lookup" ELSE "dims"
                /\ UNCHANGED w_res
    /\ UNCHANGED <<kvars, pvars, rvars, yvars, gvars, svars, zvars, w_src, w_in, w_call, w_warn>>

\* self.input_file.variable(original_var_name).ok_or_else(VariableNotFound)?
LookupSource ==
    /\ w_pc = "lookup"
    /\ IF input_variable(w_src, w_in.original_var_name) = None
       THEN /\ w_res' = VariableNotFound(w_in.original_var_name)
            /\ w_pc' = "done"
            /\ UNCHANGED w_trace
       ELSE /\ w_trace' = Append(w_trace, "lookup")
            /\ w_pc' = "addvar"
            /\ UNCHANGED w_res
    /\ UNCHANGED <<kvars, pvars, rvars, yvars, gvars, svars, zvars, disk, w_src, w_in, w_i, w_call,
                   w_warn>>

\* file.add_variable::<f32>(var_name, &dim_refs)?; a dimension the file does
\* not define is an error of the library.
AddVariable ==
    /\ w_pc = "addvar"
    /\ LET refs == dim_refs(w_in.dim_names)
       IN  IF \E j \in DOMAIN refs : ~dim_defined(disk, refs[j])
           THEN /\ w_res' = NetCDFError("addvar")
                /\ w_pc' = "done"
                /\ UNCHANGED <<disk, w_trace>>
           ELSE /\ disk' = [disk EXCEPT !.var = [name |-> w_in.var_name, dims |-> refs,
                                                 attrs |-> <<>>, data |-> None]]
                /\ w_trace' = Append(w_trace, "addvar")
                /\ w_pc' = after_add_variable(fill_value(w_src.attrs))
                /\ UNCHANGED w_res
    /\ UNCHANGED <<kvars, pvars, rvars, yvars, gvars, svars, zvars, w_src, w_in, w_i, w_call, w_warn>>

\* new_var.put_attribute("_FillValue", fv)?
PutFillValue ==
    /\ w_pc = "fill"
    /\ disk' = [disk EXCEPT !.var.attrs =
                   Append(@, AttrN("_FillValue", "Float", <<fill_value(w_src.attrs).v>>))]
    /\ w_trace' = Append(w_trace, "fill")
    /\ w_pc' = "put"
    /\ UNCHANGED <<kvars, pvars, rvars, yvars, gvars, svars, zvars, w_src, w_in, w_i, w_call, w_res,
                   w_warn>>

\* new_var.put(data.view(), ..)?; an array whose shape is not the
\* variable's is an error of the library.
PutData ==
    /\ w_pc = "put"
    /\ IF var_shape(disk) # w_in.data.shape
       THEN /\ w_res' = NetCDFError("put")
            /\ w_pc' = "done"
            /\ UNCHANGED <<disk, w_trace, w_i>>
       ELSE /\ disk' = [disk EXCEPT !.var.data = Some(w_in.data.data)]
            /\ w_trace' = Append(w_trace, "put")
            /\ w_i' = 1
            /\ w_pc' = after_put(w_src.attrs)
            /\ UNCHANGED w_res
    /\ UNCHANGED <<kvars, pvars, rvars, yvars, gvars, svars, zvars, w_src, w_in, w_call, w_warn>>

\* One turn of the loop over the other attributes: put_attribute with the
\* value as read, or the warning.
CopyAttribute ==
    /\ w_pc = "attrs"
    /\ LET others == other_attributes(w_src.attrs)
           a == others[w_i]
       IN  /\ IF is_copied(a.type)
              THEN /\ disk' = [disk EXCEPT !.var.attrs = Append(@, a)]
                   /\ w_trace' = Append(w_trace, "attr")
                   /\ UNCHANGED w_warn
              ELSE /\ w_warn' = Append(w_warn, a.name)
                   /\ w_trace' = Append(w_trace, "skip")
                   /\ UNCHANGED disk
           /\ w_i' = w_i + 1
           /\ w_pc' = IF w_i = Len(others) THEN "history" ELSE "attrs"
    /\ UNCHANGED <<kvars, pvars, rvars, yvars, gvars, svars, zvars, w_src, w_in, w_call, w_res>>

\* file.add_attribute("history", ...)?; Ok(())
AddHistory ==
    /\ w_pc = "history"
    /\ disk' = [disk EXCEPT !.attrs =
                   Append(@, AttrS("history", "Str", <<"Created by RuNeVis on ", "Utc::now()">>))]
    /\ w_trace' = Append(w_trace, "history")
    /\ w_res' = Ok
    /\ w_pc' = "done"
    /\ UNCHANGED <<kvars, pvars, rvars, yvars, gvars, svars, zvars, w_src, w_in, w_i, w_call, w_warn>>

\* The `?` of a step: the file system or the library reports a failure, the
\* call returns it and the file handle is dropped, which closes the file.
StepFails ==
    /\ \/ w_pc = "exists" /\ disk # None
       \/ w_pc \in {"create", "dims", "addvar", "fill", "put", "attrs", "history"}
    /\ w_res' = IF w_pc = "exists" THEN IoError("remove") ELSE NetCDFError(w_pc)
    /\ w_pc' = "done"
    /\ UNCHANGED <<kvars, pvars, rvars, yvars, gvars, svars, zvars, disk, w_src, w_in, w_i, w_call,
                   w_warn, w_trace>>

\* The caller calls write_result again for the same output path.
NextWrite ==
    /\ w_pc = "done"
    /\ w_call < MaxWrites
    /\ w_call' = w_call + 1
    /\ w_pc' = "exists"
    /\ w_i' = 0
    /\ w_res' = None
    /\ w_warn' = <<>>
    /\ w_trace' = <<>>
    /\ UNCHANGED <<kvars, pvars, rvars, yvars, gvars, svars, zvars, disk, w_src, w_in>>

WriterNext ==
    \/ RemoveOld
    \/ CreateFile
    \/ AddDimension
    \/ LookupSource
    \/ AddVariable
    \/ PutFillValue
    \/ PutData
    \/ CopyAttribute
    \/ AddHistory
    \/ StepFails
    \/ NextWrite

InitWriter ==
    /\ WriterInit /\ KernelIdle /\ ParIdle /\ ReqIdle /\ PoolIdle /\ SliceIdle /\ ZarrIdle
    /\ AuxIdle

SpecWriter == InitWriter /\ [][WriterNext]_vars

\* ---------------------------------------------------- the writer's claims
WriterOk == w_pc = "done" /\ w_res.kind = "ok"
WrittenNow == disk # None /\ disk.call = w_call
DataWritten == WrittenNow /\ disk.var # None /\ disk.var.data # None
StepsOf(name) == {i \in DOMAIN w_trace : w_trace[i] = name}

C14_AttributesCopied ==
    WriterOk =>
        \A a \in Range(w_src.attrs) :
            a.name # "_FillValue" =>
                IF a.type \in {"Str", "Strs", "Float", "Floats", "Double", "Doubles",
                               "Int", "Ints", "Short", "Shorts"}
                THEN /\ a \in Range(disk.var.attrs)
                     /\ a.name \notin Range(w_warn)
                ELSE /\ \A b \in Range(disk.var.attrs) : b.name # a.name
                     /\ a.name \in Range(w_warn)
                     /\ DataWritten

C14_Witness ==
    /\ WriterOk /\ DataWritten
    /\ w_warn = <<"ids">>
    /\ disk.var.attrs = <<AttrS("tags", "Strs", <<"a", "b">>)>>

\* C15: a write_result call that fails returns a typed error, has run no
\* step twice, and leaves nothing written by that call at the output path.
C15_NoPartialFile ==
    (w_pc = "done" /\ w_res.kind = "err") =>
        /\ w_res.err.type \in {"IoError", "NetCDFError", "VariableNotFound"}
        /\ Cardinality(StepsOf("create")) <= 1
        /\ ~WrittenNow

\* C16 (as amended): the new file is created only once the output path is
\* empty, everything at the path after a call got as far as creating the
\* file is that call's own, and a file of an earlier call is at the path
\* after a call only when that call failed at the removal itself.
C16_StaleRemoved ==
    /\ w_pc = "create" => disk = None
    /\ StepsOf("create") # {} => WrittenNow
    /\ (w_pc = "done" /\ disk # None /\ disk.call # w_call) =>
          /\ w_res = IoError("remove")
          /\ w_trace = <<>>

C16_Witness ==
    /\ w_call = 2 /\ WriterOk /\ DataWritten
    /\ w_trace[1] = "remove" /\ w_trace[2] = "create"

\* C16 (as claimed): after a write_result call, successful or failed, the
\* output path never holds a file written by an earlier call.
C16_NeverStale ==
    (w_pc = "done" /\ disk # None) => disk.call = w_call

\* C17: after a successful write_result, the output holds a variable named
\* var_name on the dimensions dim_names in that order, whose lengths are
\* data.shape, with the elements of data in row-major order; the (2, 3)
\* array of the unit test reads back as 1, 2, 3, 4, 5, 6 on (x, y).
C17_RoundTrip ==
    WriterOk =>
        /\ WrittenNow
        /\ disk.var.name = w_in.var_name
        /\ disk.var.dims = w_in.dim_names
        /\ Len(disk.var.dims) = Len(w_in.data.shape)
        /\ \A j \in DOMAIN disk.var.dims :
              \E k \in DOMAIN disk.dims :
                  /\ disk.dims[k].name = disk.var.dims[j]
                  /\ disk.dims[k].len = w_in.data.shape[j]
        /\ disk.var.data.kind = "some"
        /\ Len(disk.var.data.v) = Product(w_in.data.shape)
        /\ \A off \in 0..(Product(w_in.data.shape) - 1) :
              disk.var.data.v[off + 1] =
                  w_in.data.data[RowMajor(w_in.data.shape,
                                          Unravel(w_in.data.shape, off), 0) + 1]
        /\ (w_in.data.shape = <<2, 3>> /\ w_in.dim_names = <<"x", "y">>) =>
              /\ disk.var.data.v = <<Fin(1), Fin(2), Fin(3), Fin(4), Fin(5), Fin(6)>>
              /\ disk.dims = <<[name |-> "x", len |-> 2], [name |-> "y", len |-> 3]>>

C17_Witness ==
    /\ WriterOk
    /\ w_in.dim_names = <<"x", "y">> /\ w_in.data.shape = <<2, 3>>
    /\ w_src.attrs = TestVarAttrs
    /\ disk.var.name = "result_var"
    /\ disk.var.data.v[6] = Fin(6)

\* =========================================================== SpecSlice
\* src/src/cli.rs parse_slice_arg and src/src/netcdf_io.rs extract_slice.
MaxIdx == 2

\* A token of the --slice argument: its text and the usize it parses to
\* (-1 when str::parse::<usize> fails).
Word(text) == [text |-> text, num |-> -1]
Number(n) == [text |-> ToString(n), num |-> n]

IdxPairs == {<<a, b>> : a \in 0..MaxIdx, b \in 0..MaxIdx}
\* The ranges used where two named ranges follow the positional one.
PairedIdx == {<<0, 1>>, <<1, 2>>, <<1, 1>>, <<0, 2>>}
SliceDimNames == {"time", "lat", "lon", "depth"}
NamedPart(names, pairs) == {<<Word(d), Number(p[1]), Number(p[2])>> : d \in names, p \in pairs}

\* The argument split at ',' and each part split at ':'.
SliceArgs ==
    {<<<<Word("data"), Number(p[1]), Number(p[2])>>>> \o rest :
        p \in IdxPairs,
        rest \in {<<>>}
                 \cup {<<n>> : n \in NamedPart(SliceDimNames, IdxPairs)}
                 \cup {<<n, m>> : n \in NamedPart(SliceDimNames, PairedIdx),
                                  m \in NamedPart(SliceDimNames, PairedIdx)}}
    \cup {<<<<Word("nope"), Number(0), Number(1)>>>>,
          <<<<Word("data"), Number(0)>>>>,
          <<<<Word("data")>>>>,
          <<<<Word("data"), Word("a"), Number(1)>>>>,
          <<<<Word("data"), Number(0), Word("-1")>>>>,
          <<<<Word("data"), Number(0), Number(1)>>, <<Word("lat"), Number(0)>>>>,
          <<<<Word("data"), Number(0), Number(1)>>, <<Word("lat"), Word("x"), Number(1)>>>>,
          <<<<Word("data"), Number(0), Number(1)>>, <<Word("lat"), Number(0), Word("y")>>>>}

\* The variable `data` of the opened file: its dimensions and values.
SliceVar(dims, shape) ==
    [dims |-> dims, shape |-> shape, data |-> [j \in 1..Product(shape) |-> Fin(j)]]
SliceVars ==
    {SliceVar(<<>>, <<>>),
     SliceVar(<<"time">>, <<2>>),
     SliceVar(<<"time", "lat">>, <<2, 1>>),
     SliceVar(<<"time", "lat", "lon">>, <<1, 2, 2>>),
     SliceVar(<<"time", "lat", "lon">>, <<3, 4, 5>>),
     SliceVar(<<"time", "lev", "lat", "lon">>, <<1, 1, 2, 1>>),
     SliceVar(<<"ens", "time", "lev", "lat", "lon">>, <<1, 1, 1, 2, 1>>)}

DimSlice(dimension, start, end) == [dimension |-> dimension, start |-> start, end |-> end]

ParseError(message) == [kind |-> "err", err |-> [type |-> "String", message |-> message]]

\* The loop over main_parts[1..]: the named ranges, or the first error.
RECURSIVE parse_dim_parts(_, _)
parse_dim_parts(parts, slices) ==
    IF parts = <<>> THEN [kind |-> "ok", slices |-> slices]
    ELSE LET dim_parts == Head(parts)
         IN  IF Len(dim_parts) # 3
             THEN ParseError("Invalid dimension slice format: Expected 'dimension:start:end'")
             ELSE IF dim_parts[2].num < 0
             THEN ParseError("Invalid start index for dimension")
             ELSE IF dim_parts[3].num < 0
             THEN ParseError("Invalid end index for dimension")
             ELSE parse_dim_parts(Tail(parts),
                     Append(slices, DimSlice(dim_parts[1].text, dim_parts[2].num,
                                             dim_parts[3].num)))

parse_slice_arg(main_parts) ==
    LET var_parts == main_parts[1]
    IN  IF Len(var_parts) # 3
        THEN ParseError("Invalid format: Expected 'variable:start:end,dimension:start:end'")
        ELSE IF var_parts[2].num < 0
        THEN ParseError("Invalid start index for variable")
        ELSE IF var_parts[3].num < 0
        THEN ParseError("Invalid end index for variable")
        ELSE LET r == parse_dim_parts(Tail(main_parts),
                         <<DimSlice("__first_dim__", var_parts[2].num, var_parts[3].num)>>)
             IN  IF r.kind = "err" THEN r
                 ELSE [kind |-> "ok",
                       spec |-> [variable |-> var_parts[1].text, slices |-> r.slices]]

InvalidSlice(message) == [kind |-> "err", err |-> [type |-> "InvalidSlice", message |-> message]]

\* The test a range has to pass.
\* Fault-injected variant: the end is not compared with the dimension size.
range_ok_NoUpper(start, end, dim_size) == ~(start >= dim_size \/ start >= end)

range_ok(start, end, dim_size) == ~(start >= dim_size \/ end > dim_size \/ start >= end)

\* slice_spec.slices.iter().find(|s| s.dimension == *dim_name): its index, 0
\* for none
find_slice(slices, dim_name) ==
    IF \E j \in DOMAIN slices : slices[j].dimension = dim_name
    THEN CHOOSE j \in DOMAIN slices :
            /\ slices[j].dimension = dim_name
            /\ \A k \in 1..(j - 1) : slices[k].dimension # dim_name
    ELSE 0

\* One turn of the loop over var_dims: the range of dimension dim_idx
slice_range(var, slices, dim_idx) ==
    LET dim_size == var.shape[dim_idx + 1]
        found == find_slice(slices, var.dims[dim_idx + 1])
        chosen == IF dim_idx = 0 /\ slices[1].dimension = "__first_dim__" THEN 1 ELSE found
    IN  IF chosen = 0
        THEN [kind |-> "ok", range |-> <<0, dim_size>>]
        ELSE IF range_ok(slices[chosen].start, slices[chosen].end, dim_size)
        THEN [kind |-> "ok", range |-> <<slices[chosen].start, slices[chosen].end>>]
        ELSE InvalidSlice("Invalid slice range for dimension")

RECURSIVE slice_ranges(_, _, _, _)
slice_ranges(var, slices, dim_idx, acc) ==
    IF dim_idx = Len(var.dims) THEN [kind |-> "ok", ranges |-> acc]
    ELSE LET r == slice_range(var, slices, dim_idx)
         IN  IF r.kind = "err" THEN r
             ELSE slice_ranges(var, slices, dim_idx + 1, Append(acc, r.range))

\* The length of a range in sliced_shape.
\* Fault-injected variant: the end is counted in.
range_len_Inclusive(range) == range[2] - range[1] + 1

range_len(range) == range[2] - range[1]

\* var.get_values::<f32, _>(ranges)?: the elements of the hyperslab in
\* row-major order; a range that leaves the variable is an error of the
\* library
get_values(var, ranges) ==
    LET extent == [j \in DOMAIN ranges |-> ranges[j][2] - ranges[j][1]]
    IN  IF \E j \in DOMAIN ranges : ranges[j][1] > ranges[j][2] \/ ranges[j][2] > var.shape[j]
        THEN NetCDFError("get_values")
        ELSE [kind |-> "ok",
              values |-> [j \in 1..Product(extent) |->
                  LET c == Unravel(extent, j - 1)
                  IN  var.data[RowMajor(var.shape,
                                        [i \in DOMAIN ranges |-> ranges[i][1] + c[i]], 0) + 1]]]

\* extract_slice once the variable is found: the outcome and the number of
\* reads of the variable
extract_slice(var, slice_spec) ==
    LET r == slice_ranges(var, slice_spec.slices, 0, <<>>)
    IN  IF r.kind = "err" THEN [res |-> r, reads |-> 0]
        ELSE IF Len(r.ranges) \in 1..4
        THEN LET sliced_data == get_values(var, r.ranges)
             IN  IF sliced_data.kind = "err" THEN [res |-> sliced_data, reads |-> 1]
                 ELSE [res |-> [kind |-> "ok",
                                sliced_shape |->
                                    [j \in DOMAIN r.ranges |-> range_len(r.ranges[j])],
                                sliced_data |-> sliced_data.values],
                       reads |-> 1]
        ELSE [res |-> InvalidSlice("Unsupported number of dimensions for slicing (max 4)"),
              reads |-> 0]

SliceInit ==
    /\ s_arg \in SliceArgs
    /\ s_var \in SliceVars
    /\ s_spec = None
    /\ s_pc = "cli"
    /\ s_res = None
    /\ s_reads = 0

\* clap's value_parser for --slice
ParseSliceArg ==
    /\ s_pc = "cli"
    /\ LET r == parse_slice_arg(s_arg)
       IN  IF r.kind = "ok"
           THEN s_spec' = r.spec /\ s_pc' = "parsed" /\ UNCHANGED s_res
           ELSE s_res' = r /\ s_pc' = "rejected" /\ UNCHANGED s_spec
    /\ UNCHANGED <<kvars, pvars, rvars, yvars, gvars, wvars, zvars, s_arg, s_var, s_reads>>

\* extract_slice(&file, slice_spec)
ExtractSlice ==
    /\ s_pc = "parsed"
    /\ IF s_spec.variable # "data"
       THEN s_res' = VariableNotFound(s_spec.variable) /\ UNCHANGED s_reads
       ELSE LET r == extract_slice(s_var, s_spec)
            IN  s_res' = r.res /\ s_reads' = r.reads
    /\ s_pc' = "done"
    /\ UNCHANGED <<kvars, pvars, rvars, yvars, gvars, wvars, zvars, s_arg, s_var, s_spec>>

SliceNext ==
    \/ ParseSliceArg
    \/ ExtractSlice

InitSlice ==
    /\ SliceInit /\ KernelIdle /\ ParIdle /\ ReqIdle /\ PoolIdle /\ WriterIdle /\ ZarrIdle
    /\ AuxIdle

SpecSlice == InitSlice /\ [][SliceNext]_vars

\* ----------------------------------------------------- the slice claims
SliceFound == s_pc = "done" /\ s_spec.variable = "data"

\* The range that applies to dimension i (1-based) of the variable, as an
\* index into the request's ranges, 0 for none: the positional range for the
\* first dimension, the first range of that name for a later one.
AppliedTo(i) ==
    IF i = 1 THEN 1
    ELSE LET named == {j \in 2..Len(s_spec.slices) : s_spec.slices[j].dimension = s_var.dims[i]}
         IN  IF named = {} THEN 0 ELSE CHOOSE j \in named : \A k \in named : j <= k

\* C18: when a range (start, end) applied to a dimension of length n has
\* start >= end, end > n or start >= n, extract_slice returns InvalidSlice
\* and has read nothing from the variable.
C18_SliceValidated ==
    SliceFound =>
        \A i \in DOMAIN s_var.dims :
            LET a == AppliedTo(i)
                n == s_var.shape[i]
            IN  (a # 0 /\ (\/ s_spec.slices[a].start >= s_spec.slices[a].end
                           \/ s_spec.slices[a].end > n
                           \/ s_spec.slices[a].start >= n)) =>
                    /\ s_res.kind = "err"
                    /\ s_res.err.type = "InvalidSlice"
                    /\ s_reads = 0

C18_Witness ==
    /\ SliceFound
    /\ s_var.shape = <<1, 2, 2>>
    /\ s_spec.slices = <<DimSlice("__first_dim__", 0, 1), DimSlice("lon", 1, 2),
                         DimSlice("lat", 1, 1)>>
    /\ s_res.kind = "err" /\ s_res.err.type = "InvalidSlice" /\ s_reads = 0

\* C19: when extract_slice succeeds, the sliced shape has for each dimension
\* of the variable, in order, end - start of the range that applies to it
\* and the dimension's length where none does, and the number of elements
\* extracted is the product of the sliced shape; data:0:2 on (3, 4, 5) gives
\* (2, 4, 5) and 40 elements.
C19_SliceShape ==
    (SliceFound /\ s_res.kind = "ok") =>
        /\ Len(s_res.sliced_shape) = Len(s_var.shape)
        /\ \A i \in DOMAIN s_var.dims :
              s_res.sliced_shape[i] =
                  IF AppliedTo(i) # 0
                  THEN s_spec.slices[AppliedTo(i)].end - s_spec.slices[AppliedTo(i)].start
                  ELSE s_var.shape[i]
        /\ Len(s_res.sliced_data) = Product(s_res.sliced_shape)
        /\ (s_var.shape = <<3, 4, 5>> /\ s_spec.slices = <<DimSlice("__first_dim__", 0, 2)>>) =>
              /\ s_res.sliced_shape = <<2, 4, 5>>
              /\ Len(s_res.sliced_data) = 40

C19_Witness ==
    /\ SliceFound /\ s_res.kind = "ok"
    /\ s_var.shape = <<3, 4, 5>>
    /\ s_arg = <<<<Word("data"), Number(0), Number(2)>>>>
    /\ s_res.sliced_shape = <<2, 4, 5>>
    /\ Len(s_res.sliced_data) = 40
    /\ s_res.sliced_data[40] = Fin(40)

\* ============================================================ SpecZarr
\* src/src/zarr_io.rs: ZarrWriter::write_array and ZarrReader::read_array on
\* one array of one store directory.
RECURSIVE Pow2(_)
Pow2(e) == IF e = 0 THEN 1 ELSE 2 * Pow2(e - 1)

RECURSIVE Log2(_)
Log2(a) == IF a < 2 THEN 0 ELSE 1 + Log2(a \div 2)

\* IEEE 754 binary32: the exponent bias, the number of mantissa bits and the
\* exponent field of the infinities and NaN
F32_BIAS == 127
F32_MANTISSA_BITS == 23
F32_EXP_SPECIAL == 255

\* The four bytes of sign s, exponent field e and mantissa m, lowest first.
le_bytes(s, e, m) ==
    <<m % 256, (m \div 256) % 256, (e % 2) * 128 + m \div 65536, s * 128 + e \div 2>>

\* f32::to_le_bytes of a whole number, an infinity or NaN
to_le_bytes(x) ==
    CASE x.k = "nan" -> le_bytes(0, F32_EXP_SPECIAL, Pow2(F32_MANTISSA_BITS - 1))
      [] x.k = "inf" -> le_bytes(IF x.n < 0 THEN 1 ELSE 0, F32_EXP_SPECIAL, 0)
      [] OTHER ->
            IF x.n = 0 THEN le_bytes(0, 0, 0)
            ELSE LET a == Abs(x.n)
                     e == Log2(a)
                 IN  le_bytes(IF x.n < 0 THEN 1 ELSE 0, e + F32_BIAS,
                              (a - Pow2(e)) * Pow2(F32_MANTISSA_BITS - e))

\* f32::from_le_bytes([b[0], b[1], b[2], b[3]])
from_le_bytes(b) ==
    LET s == b[4] \div 128
        e == (b[4] % 128) * 2 + b[3] \div 128
        m == (b[3] % 128) * 65536 + b[2] * 256 + b[1]
        sig == Pow2(F32_MANTISSA_BITS) + m
        sh == e - F32_BIAS - F32_MANTISSA_BITS
    IN  IF e = F32_EXP_SPECIAL
        THEN IF m # 0 THEN NAN ELSE IF s = 1 THEN NEG_INFINITY ELSE INFINITY
        ELSE IF e = 0 THEN Fin(0)
        ELSE IF sh >= 0
        THEN Fin((IF s = 1 THEN -1 ELSE 1) * sig * Pow2(sh))
        ELSE Rat((IF s = 1 THEN -1 ELSE 1) * sig, Pow2(-sh))

\* chunk_data.iter().flat_map(|&f| f.to_le_bytes().to_vec()).collect()
chunk_bytes(values) ==
    [j \in 1..(4 * Len(values)) |->
        to_le_bytes(values[((j - 1) \div 4) + 1])[((j - 1) % 4) + 1]]

\* bytes.chunks_exact(4).map(from_le_bytes).next().unwrap_or(0.0)
first_f32(bytes) == IF Len(bytes) >= 4 THEN from_le_bytes(SubSeq(bytes, 1, 4)) ELSE Fin(0)

\* usize::div_ceil
div_ceil(a, b) == (a + b - 1) \div b

\* tests/zarr_tests.rs, test_read_write_zarr: 0.0 .. 99.0 as (10, 10),
\* written with chunks (10, 10)
ZarrTestArray == [shape |-> <<10, 10>>, data |-> [j \in 1..100 |-> Fin(j - 1)]]
ZarrTestChunks == <<10, 10>>

ZarrShapes == {<<>>, <<1>>, <<2>>, <<3>>, <<2, 2>>, <<2, 3>>}
ZarrPatterns == {"count", "ramp", "gaps"}
ZarrData(pat, n) ==
    IF pat = "count" THEN [j \in 1..n |-> Fin(j - 1)] ELSE PatternData(pat, n)
ZarrChunkShapes == UNION {[1..r -> 0..MaxDimLen] : r \in 0..2}

ZarrRequests ==
    {[data |-> [shape |-> sh, data |-> ZarrData(pat, Product(sh))], chunk_shape |-> c] :
        sh \in ZarrShapes, pat \in ZarrPatterns,
        c \in {None} \cup {Some(cs) : cs \in ZarrChunkShapes}}
    \cup {[data |-> ZarrTestArray, chunk_shape |-> Some(ZarrTestChunks)]}

\* The chunk files chunk_0 .. chunk_{num_chunks - 1} of write_array, as the
\* sequence of their contents.
chunk_files(data_vec, chunk_size) ==
    LET total_elements == Len(data_vec)
        num_chunks == div_ceil(total_elements, chunk_size)
    IN  [c \in 1..num_chunks |->
            LET start_idx == (c - 1) * chunk_size
                end_idx == IF start_idx + chunk_size < total_elements
                           THEN start_idx + chunk_size ELSE total_elements
            IN  chunk_bytes(SubSeq(data_vec, start_idx + 1, end_idx))]

\* write_array: the array directory afterwards and the outcome; div_ceil
\* panics on a chunk size of zero, after .zarray is written.
write_array(data, chunk_shape) ==
    LET chunks == IF chunk_shape.kind = "some" THEN chunk_shape.v ELSE data.shape
        zarray == [shape |-> data.shape, chunks |-> chunks]
    IN  IF Product(chunks) = 0
        THEN [store |-> [zarray |-> zarray, files |-> <<>>], res |-> [kind |-> "panic"]]
        ELSE [store |-> [zarray |-> zarray, files |-> chunk_files(data.data, Product(chunks))],
              res |-> Ok]

\* read_array: element i is the first value of the file chunk_i, or 0.0
\* where there is no such file.
read_array(store) ==
    LET total_size == Product(store.zarray.shape)
        data == [j \in 1..total_size |->
                    IF j <= Len(store.files) THEN first_f32(store.files[j]) ELSE Fin(0)]
    IN  from_shape_vec(store.zarray.shape, data)

ZarrInit ==
    /\ z_store = None
    /\ z_in \in ZarrRequests
    /\ z_pc = "new"
    /\ z_wres = None
    /\ z_res = None

\* writer.write_array(array_name, &array, chunk_shape, None)
WriteArray ==
    /\ z_pc = "new"
    /\ LET w == write_array(z_in.data, z_in.chunk_shape)
       IN  /\ z_store' = w.store
           /\ z_wres' = w.res
           /\ z_pc' = IF w.res.kind = "ok" THEN "written" ELSE "panicked"
    /\ UNCHANGED <<kvars, pvars, rvars, yvars, gvars, wvars, svars, z_in, z_res>>

\* reader.read_array(array_name)
ReadArray ==
    /\ z_pc = "written"
    /\ z_res' = read_array(z_store)
    /\ z_pc' = "read"
    /\ UNCHANGED <<kvars, pvars, rvars, yvars, gvars, wvars, svars, z_store, z_in, z_wres>>

ZarrNext ==
    \/ WriteArray
    \/ ReadArray

InitZarr ==
    /\ ZarrInit /\ KernelIdle /\ ParIdle /\ ReqIdle /\ PoolIdle /\ WriterIdle /\ SliceIdle
    /\ AuxIdle

SpecZarr == InitZarr /\ [][ZarrNext]_vars

\* C20: read_array after write_array of the same array name on the same
\* store returns the array that was written: the same shape and the same
\* element at every index.
C20_ZarrRoundTrip ==
    z_pc = "read" =>
        /\ z_res.kind = "ok"
        /\ z_res.arr.shape = z_in.data.shape
        /\ \A j \in 1..Product(z_in.data.shape) : z_res.arr.data[j] = z_in.data.data[j]

\* The chunkings for which the round trip does hold: one element per chunk
\* file.
ZarrRoundTripPerElement ==
    (z_pc = "read" /\ Product(z_store.zarray.chunks) = 1) =>
        z_res = [kind |-> "ok", arr |-> z_in.data]

\* ============================================ the axis bound (C21, C22)
\* C21: reduce_along_axis called with an axis at or past the rank returns,
\* for every operation, an error value (the StatisticsError naming the axis
\* and the rank); no kernel has run, so there is no panic, no result array
\* and no element read.
C21_AxisOutOfBounds ==
    (k_pc = "done" /\ k_in.axis >= Len(k_in.arr.shape)) =>
        /\ k_res.kind = "err"
        /\ DOMAIN k_res = {"kind", "err"}
        /\ k_res.err = [type |-> "StatisticsError", axis |-> k_in.axis,
                        ndim |-> Len(k_in.arr.shape)]
        /\ k_reads = <<>>

C21_Witness ==
    /\ k_pc = "done" /\ k_in.arr = FixtureArray /\ k_in.axis = 3
    /\ k_in.op = "Min" /\ k_res.kind = "err"

\* C22: each of the four kernels, called directly with an axis at or past
\* the rank of its input, returns an Err value.
C22_KernelsReturnErr ==
    (k_pc = "direct" /\ k_in.axis >= Len(k_in.arr.shape)) => k_res.kind = "err"

\* ============================================ the shape invariant (C23)
\* The shape the variable's dimensions declare.
DeclaredShape == [j \in 1..Len(file.dims) |-> DimLen(file.dims[j])]

\* C23: the loaded source and the reduced result each hold as many values
\* as the product of their shape; and a load whose buffer length differs
\* from the product of the declared dimension lengths ends the request with
\* the shape-mismatch error (ArrayError), no array built, no kernel run and
\* nothing returned.
C23_ShapeInvariant ==
    /\ r_data # None => Len(r_data.data) = Product(r_data.shape)
    /\ r_reduced # None => Len(r_reduced.data) = Product(r_reduced.shape)
    /\ (r_loads > 0 /\ Len(file.data) # Product(DeclaredShape)) =>
          /\ r_pc = "failed"
          /\ r_err = [type |-> "ArrayError"]
          /\ r_data = None /\ r_reduced = None /\ r_res = None

C23_Witness ==
    /\ r_pc = "failed" /\ r_err = [type |-> "ArrayError"]
    /\ file.dims = <<"time", "lat">> /\ Len(file.data) = 13
    /\ r_in.op = "Mean" /\ r_data = None

\* ============================================================ SpecPaths
\* The same request answered by the library (statistics::netcdf), by the
\* command-line binary (utils.rs) and, for Min and Max, by the legacy
\* helpers reduce_min / reduce_max.

\* -------------------------------------------- utils.rs: the kernels
\* utils::reduce, the coordinate loop of its closure from dim_idx onwards;
\* st = [panic, coords, remaining, coord_idx].
RECURSIVE reduce_decode_loop(_, _, _, _, _)
reduce_decode_loop(original_shape, new_shape, axis, dim_idx, st) ==
    IF dim_idx >= Len(original_shape) \/ st.panic THEN st
    ELSE IF dim_idx # axis
    THEN LET stride == Product(SubSeq(new_shape, st.coord_idx + 2, Len(new_shape)))
         IN  IF stride = 0
             THEN [st EXCEPT !.panic = TRUE]
             ELSE reduce_decode_loop(original_shape, new_shape, axis, dim_idx + 1,
                    [panic |-> FALSE,
                     coords |-> [st.coords EXCEPT ![dim_idx + 1] = st.remaining \div stride],
                     remaining |-> st.remaining % stride,
                     coord_idx |-> st.coord_idx + 1])
    ELSE reduce_decode_loop(original_shape, new_shape, axis, dim_idx + 1, st)

\* let mut coords = vec![0; original_shape.len()]; let mut remaining =
\* flat_idx; let mut coord_idx = 0; for (dim_idx, ..) in ..
reduce_decode(original_shape, new_shape, axis, flat_idx) ==
    reduce_decode_loop(original_shape, new_shape, axis, 0,
        [panic |-> FALSE, coords |-> [j \in 1..Len(original_shape) |-> 0],
         remaining |-> flat_idx, coord_idx |-> 0])

\* Fault-injected variant: the remainder is not reduced after a coordinate
\* is taken.
RECURSIVE utils_mean_decode_loop_KeepRemaining(_, _, _, _, _)
utils_mean_decode_loop_KeepRemaining(original_shape, new_shape, axis, dim_idx, st) ==
    IF dim_idx >= Len(original_shape) \/ st.panic THEN st
    ELSE IF dim_idx # axis
    THEN LET stride == Product(SubSeq(new_shape, st.coord_idx + 2, Len(new_shape)))
         IN  IF stride = 0
             THEN [st EXCEPT !.panic = TRUE]
             ELSE utils_mean_decode_loop_KeepRemaining(
                    original_shape, new_shape, axis, dim_idx + 1,
                    [panic |-> FALSE,
                     coords |-> [st.coords EXCEPT ![dim_idx + 1] = st.remaining \div stride],
                     remaining |-> st.remaining,
                     coord_idx |-> st.coord_idx + 1])
    ELSE utils_mean_decode_loop_KeepRemaining(original_shape, new_shape, axis, dim_idx + 1, st)
\* utils::parallel_mean_axis, the same loop in its own closure.
RECURSIVE utils_mean_decode_loop(_, _, _, _, _)
utils_mean_decode_loop(original_shape, new_shape, axis, dim_idx, st) ==
    IF dim_idx >= Len(original_shape) \/ st.panic THEN st
    ELSE IF dim_idx # axis
    THEN LET stride == Product(SubSeq(new_shape, st.coord_idx + 2, Len(new_shape)))
         IN  IF stride = 0
             THEN [st EXCEPT !.panic = TRUE]
             ELSE utils_mean_decode_loop(original_shape, new_shape, axis, dim_idx + 1,
                    [panic |-> FALSE,
                     coords |-> [st.coords EXCEPT ![dim_idx + 1] = st.remaining \div stride],
                     remaining |-> st.remaining % stride,
                     coord_idx |-> st.coord_idx + 1])
    ELSE utils_mean_decode_loop(original_shape, new_shape, axis, dim_idx + 1, st)

utils_mean_decode(original_shape, new_shape, axis, flat_idx) ==
    utils_mean_decode_loop(original_shape, new_shape, axis, 0,
        [panic |-> FALSE, coords |-> [j \in 1..Len(original_shape) |-> 0],
         remaining |-> flat_idx, coord_idx |-> 0])

\* for i in 0..axis_len { coords[axis] = i; if let Some(value) = data.get(..)
\* { if value.is_finite() { acc = op(acc, *value) } } }
RECURSIVE reduce_walk(_, _, _, _, _, _)
reduce_walk(arr, axis, coords, i, acc, op) ==
    IF i >= arr.shape[axis + 1] THEN acc
    ELSE LET off == GetOffset(arr, [coords EXCEPT ![axis + 1] = i])
             value == arr.data[off + 1]
         IN  reduce_walk(arr, axis, coords, i + 1,
                IF off # -1 /\ is_finite(value)
                THEN CASE op = "sum" -> f_add(acc, value)
                       [] op = "min" -> f32_min(acc, value)
                       [] op = "max" -> f32_max(acc, value)
                ELSE acc,
                op)

\* fn reduce<F>(data, axis, init, op) -> ArrayD<f64>
reduce(arr, axis, init, op) ==
    IF axis >= Len(arr.shape) THEN [kind |-> "panic"]      \* original_shape[axis]
    ELSE LET new_shape == RemoveAt(arr.shape, axis)
             output_size == Product(new_shape)
             dec == [j \in 1..output_size |->
                        reduce_decode(arr.shape, new_shape, axis, j - 1)]
         IN  IF \E j \in 1..output_size : dec[j].panic
             THEN [kind |-> "panic"]
             ELSE [kind |-> "ok",
                   arr |-> [shape |-> new_shape,
                            data |-> [j \in 1..output_size |->
                                reduce_walk(arr, axis, dec[j].coords, 0, init, op)]]]

\* utils::parallel_mean_axis
utils_parallel_mean_axis(arr, axis) ==
    IF axis >= Len(arr.shape) THEN [kind |-> "panic"]
    ELSE LET new_shape == RemoveAt(arr.shape, axis)
             output_size == Product(new_shape)
             dec == [j \in 1..output_size |->
                        utils_mean_decode(arr.shape, new_shape, axis, j - 1)]
         IN  IF \E j \in 1..output_size : dec[j].panic
             THEN [kind |-> "panic"]
             ELSE from_shape_vec(new_shape,
                    [j \in 1..output_size |->
                        MeanFinish(MeanWalk(arr, axis, dec[j].coords, 0,
                                            arr.shape[axis + 1], MeanAccInit))])

\* utils::parallel_sum_axis, parallel_min_axis, parallel_max_axis: reduce in
\* f64, then back to f32, a remaining sentinel becoming NaN.
utils_parallel_sum_axis(arr, axis) == reduce(arr, axis, Fin(0), "sum")
utils_parallel_min_axis(arr, axis) ==
    mapv_sentinel(reduce(arr, axis, INFINITY, "min"), INFINITY)
utils_parallel_max_axis(arr, axis) ==
    mapv_sentinel(reduce(arr, axis, NEG_INFINITY, "max"), NEG_INFINITY)

\* The word each of utils::mean_over_dimension, sum_over_dimension,
\* min_over_dimension and max_over_dimension puts in the derived name.
utils_name_word(operation) ==
    CASE operation = "Mean" -> "mean" [] operation = "Sum" -> "sum"
      [] operation = "Min" -> "min" [] operation = "Max" -> "max"

\* Box<dyn Error> made from a &str
BoxError(msg) == [kind |-> "err", err |-> [type |-> "Box", msg |-> msg]]

\* utils::mean_over_dimension / sum_.. / min_.. / max_over_dimension
utils_over_dimension(f, var_name, dim_name, operation) ==
    LET var == file_variable(f, var_name)
    IN  IF var = None THEN BoxError("Variable not found")
        ELSE
        LET dim_names == var.dims
            axis_index == position(dim_names, dim_name, 0)
            shape == [j \in 1..Len(dim_names) |-> DimLen(dim_names[j])]
            data == from_shape_vec(shape, f.data)
        IN  IF axis_index = -1 THEN BoxError("Dimension not found in variable")
            ELSE IF data.kind # "ok" THEN data
            ELSE
            LET r == CASE operation = "Mean" -> utils_parallel_mean_axis(data.arr, axis_index)
                       [] operation = "Sum" -> utils_parallel_sum_axis(data.arr, axis_index)
                       [] operation = "Min" -> utils_parallel_min_axis(data.arr, axis_index)
                       [] operation = "Max" -> utils_parallel_max_axis(data.arr, axis_index)
            IN  IF r.kind # "ok" THEN r
                ELSE [kind |-> "ok",
                      data |-> r.arr,
                      kept |-> SelectSeq([j \in 1..Len(dim_names) |->
                                             [i |-> j - 1, name |-> dim_names[j]]],
                                         LAMBDA e : e.i # axis_index),
                      name |-> var_name \o "_" \o utils_name_word(operation)
                                  \o "_over_" \o dim_name]

\* ------------------------------------ statistics::netcdf: the library
\* compute_stat_over_dimension, from its first statement to its last.
compute_stat_over_dimension(f, var_name, dim_name, operation) ==
    LET var == file_variable(f, var_name)
    IN  IF var = None
        THEN [kind |-> "err", err |-> [type |-> "VariableNotFound", var |-> var_name]]
        ELSE
        LET dim_names == var.dims
            axis_index == position(dim_names, dim_name, 0)
            shape == [j \in 1..Len(dim_names) |-> DimLen(dim_names[j])]
            data == from_shape_vec(shape, f.data)
        IN  IF axis_index = -1
            THEN [kind |-> "err", err |-> DimensionNotFound(var_name, dim_name)]
            ELSE IF data.kind # "ok" THEN data
            ELSE
            LET r == reduce_along_axis(data.arr, axis_index, operation)
            IN  IF r.kind # "ok" THEN r
                ELSE [kind |-> "ok",
                      data |-> r.arr,
                      kept |-> kept_dim_names(dim_names, axis_index, 0),
                      name |-> new_var_name(var_name, as_str(operation), dim_name)]

\* reduce_min / reduce_max on a variable handle: the fold of fold_axis over
\* the values widened to f64, returned as it is.
reduce_min_max(f, var, dim, operation) ==
    LET axis_index == position(var.dims, dim, 0)
        shape == [j \in 1..Len(var.dims) |-> DimLen(var.dims[j])]
        data == from_shape_vec(shape, f.data)
    IN  IF axis_index = -1
        THEN [kind |-> "err", err |-> DimensionNotFound("unknown", dim)]
        ELSE IF data.kind # "ok" THEN data
        ELSE IF operation = "Min"
        THEN fold_axis(data.arr, axis_index, INFINITY, "min")
        ELSE fold_axis(data.arr, axis_index, NEG_INFINITY, "max")

\* ------------------------------------------------------------- the calls
PathsInit ==
    /\ q_in \in [file : {FileOf(dims, pat) : dims \in DimLists, pat \in Patterns},
                 var : RequestVars, dim : RequestDims, op : StatOperation]
    /\ q_lib = None /\ q_bin = None /\ q_leg = None

\* statistics::netcdf::mean_over_dimension(&file, var, dim) and the like
LibraryPath ==
    /\ q_lib = None
    /\ q_lib' = compute_stat_over_dimension(q_in.file, q_in.var, q_in.dim, q_in.op)
    /\ UNCHANGED <<kvars, pvars, rvars, gvars, wvars, svars, zvars, dvars, cvars,
                   q_in, q_bin, q_leg>>

\* main.rs: mean_over_dimension(&file, var, dim) of utils.rs and the like
BinaryPath ==
    /\ q_bin = None
    /\ q_bin' = utils_over_dimension(q_in.file, q_in.var, q_in.dim, q_in.op)
    /\ UNCHANGED <<kvars, pvars, rvars, gvars, wvars, svars, zvars, dvars, cvars,
                   q_in, q_lib, q_leg>>

\* tests/integration_test.rs: file.variable(name).expect(..), then
\* reduce_min(&var, dim) or reduce_max(&var, dim)
LegacyPath ==
    /\ q_leg = None
    /\ q_in.op \in {"Min", "Max"}
    /\ file_variable(q_in.file, q_in.var) # None
    /\ q_leg' = reduce_min_max(q_in.file, file_variable(q_in.file, q_in.var),
                               q_in.dim, q_in.op)
    /\ UNCHANGED <<kvars, pvars, rvars, gvars, wvars, svars, zvars, dvars, cvars,
                   q_in, q_lib, q_bin>>

PathsNext == LibraryPath \/ BinaryPath \/ LegacyPath

InitPaths ==
    /\ PathsInit /\ KernelIdle /\ ParIdle /\ ReqIdle /\ PoolIdle /\ WriterIdle
    /\ SliceIdle /\ ZarrIdle /\ DecodeIdle /\ CountIdle

SpecPaths == InitPaths /\ [][PathsNext]_vars

\* C24: for the same variable, dimension and operation the binary's path
\* and the library's path return the same derived variable name and the
\* same kept dimension names, for each of Mean, Sum, Min and Max.
C24_SameNameAndDims ==
    (q_lib # None /\ q_bin # None /\ q_lib.kind = "ok" /\ q_bin.kind = "ok") =>
        /\ q_bin.name = q_lib.name
        /\ [j \in 1..Len(q_bin.kept) |-> q_bin.kept[j].name] = q_lib.kept

\* C25: reduce_min and reduce_max return, at every output coordinate, the
\* value min_over_dimension and max_over_dimension return there, cells
\* with no finite value along the reduced axis included.
C25_LegacyAgrees ==
    (q_leg # None /\ q_lib # None /\ q_leg.kind = "ok" /\ q_lib.kind = "ok") =>
        /\ q_leg.arr.shape = q_lib.data.shape
        /\ \A j \in 1..Len(q_lib.data.data) : q_leg.arr.data[j] = q_lib.data.data[j]

\* ============================== write_result: order and failures (C26, C27)
\* The place of a step in the body of write_result (w_trace names the
\* steps done, NetCDFError the step that failed).
StepRank(name) ==
    CASE name = "remove" -> 1 [] name = "create" -> 2
      [] name \in {"dim", "dims"} -> 3 [] name = "lookup" -> 4
      [] name = "addvar" -> 5 [] name = "fill" -> 6 [] name = "put" -> 7
      [] name \in {"attr", "skip", "attrs"} -> 8 [] name = "history" -> 9

\* The steps inside a loop.
Repeats(name) == name \in {"dim", "attr", "skip"}

Before(a, b) == StepRank(a) < StepRank(b) \/ (StepRank(a) = StepRank(b) /\ Repeats(a))

FailedStep ==
    IF w_res.err.type = "VariableNotFound" THEN "lookup" ELSE w_res.err.step

Reached(rank) == \E j \in DOMAIN w_trace : StepRank(w_trace[j]) > rank

\* C26: the steps of a call are done in the order remove, create, add
\* dimensions, look up the source variable, add the variable, _FillValue,
\* data, other attributes, history, none left out; a call that failed did
\* nothing at or after the failed step.  A VariableNotFound leaves this
\* call's new file with its dimensions and no variable, and a failure while
\* copying an attribute leaves a file with the data and no history.
C26_FixedOrder ==
    /\ \A i, j \in DOMAIN w_trace : i < j => Before(w_trace[i], w_trace[j])
    /\ Reached(2) => StepsOf("create") # {}
    /\ Reached(3) =>
          Cardinality(StepsOf("dim")) = Len(zip_dims(w_in.dim_names, w_in.data.shape))
    /\ Reached(4) => StepsOf("lookup") # {}
    /\ Reached(5) => StepsOf("addvar") # {}
    /\ Reached(6) => (StepsOf("fill") # {} <=> fill_value(w_src.attrs).kind = "some")
    /\ Reached(7) => StepsOf("put") # {}
    /\ Reached(8) =>
          Cardinality(StepsOf("attr") \cup StepsOf("skip"))
              = Len(other_attributes(w_src.attrs))
    /\ WriterOk => StepsOf("history") # {}
    /\ (w_pc = "done" /\ w_res.kind = "err") =>
          /\ \A j \in DOMAIN w_trace : Before(w_trace[j], FailedStep)
          /\ w_res.err.type = "VariableNotFound" =>
                /\ WrittenNow /\ disk.var = None /\ disk.attrs = <<>>
                /\ disk.dims = zip_dims(w_in.dim_names, w_in.data.shape)
          /\ w_res = NetCDFError("attrs") => DataWritten /\ disk.attrs = <<>>

C26_Witness ==
    /\ w_call = 2 /\ w_pc = "done" /\ w_res = VariableNotFound("missing")
    /\ w_trace = <<"remove", "create", "dim", "dim">>
    /\ disk.call = 2 /\ Len(disk.dims) = 2

\* The source variable carries a _FillValue that is not f32, f64 or i16.
OddFillValue ==
    \E j \in DOMAIN w_src.attrs :
        /\ w_src.attrs[j].name = "_FillValue"
        /\ w_src.attrs[j].type \notin {"Float", "Double", "Short"}

\* C27: a _FillValue of another type than f32, f64 or i16 never reaches the
\* output: no _FillValue is put on the new variable, the copy loop passes
\* over it (one turn per other attribute), and no warning names it; the
\* call can still return Ok.
C27_OddFillValueDropped ==
    OddFillValue =>
        /\ StepsOf("fill") = {}
        /\ (disk # None /\ disk.var # None) =>
              \A j \in DOMAIN disk.var.attrs : disk.var.attrs[j].name # "_FillValue"
        /\ \A j \in DOMAIN w_warn : w_warn[j] # "_FillValue"
        /\ Cardinality(StepsOf("attr") \cup StepsOf("skip")) < Len(w_src.attrs)

C27_Witness ==
    /\ OddFillValue /\ WriterOk /\ DataWritten
    /\ Len(disk.var.attrs) = 1 /\ disk.var.attrs[1].name = "tags"
    /\ w_warn = <<"ids">>

\* ===================================== ranges that apply to nothing (C28)
\* C28: every range of a slice request is applied to a dimension of the
\* variable, or extract_slice fails with InvalidSlice; a named range whose
\* name is no dimension of the variable, or the variable's first dimension,
\* is not passed over in silence.
C28_EveryRangeApplied ==
    SliceFound =>
        \A j \in DOMAIN s_spec.slices :
            \/ \E i \in DOMAIN s_var.dims : AppliedTo(i) = j
            \/ s_res.kind = "err" /\ s_res.err.type = "InvalidSlice"

\* =========================================================== SpecDecode
\* The three closures that turn a flat output index into coordinates of
\* the source, each run on the same shape, axis and index.
DecodeShapes == UNION {[1..r -> 0..(MaxDimLen + 1)] : r \in 1..MaxRank}

\* (0..output_size).into_par_iter(): the indices the closures are handed
DecodeInit ==
    /\ d_in \in {[shape |-> sh, axis |-> ax, flat_idx |-> f] :
                    sh \in DecodeShapes, ax \in 0..(MaxRank - 1),
                    f \in 0..(Product([j \in 1..(MaxRank - 1) |-> MaxDimLen + 1]) - 1)}
    /\ d_in.axis < Len(d_in.shape)
    /\ d_in.flat_idx < Product(RemoveAt(d_in.shape, d_in.axis))
    /\ d_out = [stat |-> None, reduce |-> None, mean |-> None]

\* What the closure holds once its coordinate loop has ended.
DecodeRun(st) == [kind |-> "coords", panic |-> st.panic, coords |-> st.coords]

\* statistics::parallel::parallel_mean_axis, lines 40-52
DecodeStatistics ==
    /\ d_out # None /\ d_out.stat = None
    /\ d_out' = [d_out EXCEPT !.stat =
          DecodeRun(DecodeCoords(d_in.shape, RemoveAt(d_in.shape, d_in.axis),
                                d_in.axis, d_in.flat_idx))]
    /\ UNCHANGED <<kvars, pvars, rvars, gvars, wvars, svars, zvars, qvars, cvars, d_in>>

\* utils::reduce, lines 358-374
DecodeReduce ==
    /\ d_out # None /\ d_out.reduce = None
    /\ d_out' = [d_out EXCEPT !.reduce =
          DecodeRun(reduce_decode(d_in.shape, RemoveAt(d_in.shape, d_in.axis),
                                 d_in.axis, d_in.flat_idx))]
    /\ UNCHANGED <<kvars, pvars, rvars, gvars, wvars, svars, zvars, qvars, cvars, d_in>>

\* utils::parallel_mean_axis, lines 418-434
DecodeUtilsMean ==
    /\ d_out # None /\ d_out.mean = None
    /\ d_out' = [d_out EXCEPT !.mean =
          DecodeRun(utils_mean_decode(d_in.shape, RemoveAt(d_in.shape, d_in.axis),
                                     d_in.axis, d_in.flat_idx))]
    /\ UNCHANGED <<kvars, pvars, rvars, gvars, wvars, svars, zvars, qvars, cvars, d_in>>

DecodeNext == DecodeStatistics \/ DecodeReduce \/ DecodeUtilsMean

InitDecode ==
    /\ DecodeInit /\ KernelIdle /\ ParIdle /\ ReqIdle /\ PoolIdle /\ WriterIdle
    /\ SliceIdle /\ ZarrIdle /\ PathsIdle /\ CountIdle

SpecDecode == InitDecode /\ [][DecodeNext]_vars

\* The row-major decomposition of the index over output_shape, placed on
\* the axes that are kept, the reduced axis at 0.
RowMajorCoords ==
    InsertAt(Unravel(RemoveAt(d_in.shape, d_in.axis), d_in.flat_idx), d_in.axis, 0)

Decoded == {d_out.stat, d_out.reduce, d_out.mean} \ {None}

\* C29: each of the three decoders maps every flat output index, for every
\* shape and axis, to the row-major decomposition of the index over the
\* output shape placed on the non-reduced axes, without dividing by zero;
\* so the three agree, and the coordinates lie inside the source and give
\* the index back (the mapping is one-to-one onto the output coordinates).
C29_DecodersAgree ==
    \A r \in Decoded :
        /\ ~r.panic
        /\ r.coords = RowMajorCoords
        /\ \A j \in DOMAIN r.coords :
              IF j = d_in.axis + 1 THEN r.coords[j] = 0
              ELSE r.coords[j] >= 0 /\ r.coords[j] < d_in.shape[j]
        /\ RowMajor(RemoveAt(d_in.shape, d_in.axis), RemoveAt(r.coords, d_in.axis), 0)
              = d_in.flat_idx

C29_Witness ==
    /\ d_in = [shape |-> <<2, 3, 3>>, axis |-> 1, flat_idx |-> 5]
    /\ d_out.stat # None /\ d_out.reduce # None /\ d_out.mean # None
    /\ d_out.stat.coords = <<1, 0, 2>>
    /\ d_out.reduce = d_out.stat /\ d_out.mean = d_out.stat

\* ============================================================ SpecCount
\* The counter of the Mean closure along one lane, at its own width.  A
\* lane is given as runs of equal values, and a count as two limbs
\* g * 2^30 + u, so that lengths past 2^31 - 1 can be walked.
MaxRuns == 2

I32_BITS == 32
Limb == Pow2(I32_BITS - 2)

Num(g, u) == [g |-> g, u |-> u]
NumAdd(a, b) ==
    LET u == a.u + b.u
    IN  IF u >= Limb THEN Num(a.g + b.g + 1, u - Limb) ELSE Num(a.g + b.g, u)

\* i32: the bit pattern has g in 0..3; the sign bit is the high bit of g.
i32_negative(c) == c.g >= 2
i32_wrapping_add(c, n) == LET s == NumAdd(c, n) IN Num(s.g % 4, s.u)
\* n increments of a non-negative counter pass i32::MAX
i32_overflows(c, n) == ~i32_negative(c) /\ NumAdd(c, n).g >= 2

\* Lengths of a run: 1, 2, 2^30 and 2^31 - 1.
RunLens == {Num(0, 1), Num(0, 2), Num(1, 0), Num(1, Limb - 1)}
Lanes == SeqsUpTo([finite : BOOLEAN, n : RunLens], MaxRuns)

\* let mut sum = 0.0_f64; let mut count = 0_i32; the finite values of the
\* lane are all 1.0, so sum is their number (`seen` is that number, kept
\* beside the counter).
CountInit ==
    /\ c_in \in [lane : Lanes, build : {"debug", "release"}]
    /\ c_i = 0
    /\ c_acc = [sum |-> Num(0, 0), count |-> Num(0, 0), seen |-> Num(0, 0)]
    /\ c_pc = "loop"
    /\ c_res = None

\* The turns of `for i in 0..axis_len` over one run: count += 1 for each
\* finite value.  With overflow checks (the debug profile) the addition that
\* passes i32::MAX panics; without them (the release profile) it wraps.
CountRun ==
    /\ c_pc = "loop"
    /\ c_i < Len(c_in.lane)
    /\ LET run == c_in.lane[c_i + 1]
       IN  IF ~run.finite
           THEN c_pc' = "loop" /\ UNCHANGED c_acc
           ELSE IF c_in.build = "debug" /\ i32_overflows(c_acc.count, run.n)
           THEN c_pc' = "panic" /\ UNCHANGED c_acc
           ELSE /\ c_pc' = "loop"
                /\ c_acc' = [sum |-> NumAdd(c_acc.sum, run.n),
                             count |-> i32_wrapping_add(c_acc.count, run.n),
                             seen |-> NumAdd(c_acc.seen, run.n)]
    /\ c_i' = c_i + 1
    /\ UNCHANGED <<kvars, pvars, rvars, gvars, wvars, svars, zvars, qvars, dvars,
                   c_in, c_res>>

\* if count > 0 { (sum / f64::from(count)) as f32 } else { f32::NAN }
CountFinish ==
    /\ c_pc = "loop"
    /\ c_i = Len(c_in.lane)
    /\ c_res' = IF ~i32_negative(c_acc.count) /\ c_acc.count # Num(0, 0)
                THEN [kind |-> "mean", sum |-> c_acc.sum, count |-> c_acc.count]
                ELSE [kind |-> "nan"]
    /\ c_pc' = "done"
    /\ UNCHANGED <<kvars, pvars, rvars, gvars, wvars, svars, zvars, qvars, dvars,
                   c_in, c_i, c_acc>>

CountNext == CountRun \/ CountFinish

InitCount ==
    /\ CountInit /\ KernelIdle /\ ParIdle /\ ReqIdle /\ PoolIdle /\ WriterIdle
    /\ SliceIdle /\ ZarrIdle /\ PathsIdle /\ DecodeIdle

SpecCount == InitCount /\ [][CountNext]_vars

\* C30: for every axis length, those past 2^31 - 1 included, the counter
\* equals the number of finite values seen, the addition never overflows
\* (no panic, no wrap), and the cell of a lane that holds a finite value is
\* computed with a positive divisor.
C30_CounterExact ==
    /\ c_pc # "panic"
    /\ c_pc \in {"loop", "done"} => c_acc.count = c_acc.seen
    /\ (c_pc = "done" /\ c_acc.seen # Num(0, 0)) => c_res.kind = "mean"
====
